---- MODULE Spec2Model ----
(***************************************************************************)
(* promote-release: the release pipeline of src/main.rs (Context::run,     *)
(* do_release, do_branching) run by concurrent invocations on one working  *)
(* directory, one publish bucket and one git remote.                       *)
(*                                                                         *)
(* Strings whose characters the code inspects (version strings, commit     *)
(* hashes) are sequences of one-character strings.  File names are the     *)
(* sequence of their dot-separated parts, the last part the extension.     *)
(* Option<T> is a set with at most one element: {} is None, {v} is Some(v).*)
(***************************************************************************)
EXTENDS Integers, Sequences, FiniteSets, TLC

\* ------------------------------------------------------------------ bounds
\* Largest UTC date (a day number) the clock reaches.
MaxDate == 2
\* Invocations of the program started in one behaviour.
MaxRuns == 2
\* Invocations that get past the gate and download artifacts.
MaxDownloads == 1

\* ------------------------------------------------------- program constants
\* &rev[..7]: the length of the revision prefix looked up in the version.
RevPrefixLen == 7

Proc == {"inv1", "inv2"}
NoProc == "none"

Channels == {"stable", "beta", "nightly"}
ConfigActions == {"promote-release", "promote-branches"}

\* --------------------------------------------------------------- strings
V_1_61_0_abcdef1 ==
    <<"1",".","6","1",".","0"," ","(","a","b","c","d","e","f","1"," ","2","0","2","2","-","0","1","-","0","1",")">>
V_1_62_0_beta_1 ==
    <<"1",".","6","2",".","0","-","b","e","t","a",".","1"," ","(","a","a","a","a","a","a","a"," ","2","0","2","2","-","0","1","-","0","1",")">>
V_1_63_0_nightly ==
    <<"1",".","6","3",".","0","-","n","i","g","h","t","l","y"," ","(","c","c","c","c","c","c","c"," ","2","0","2","2","-","0","1","-","0","1",")">>
V_1_61_0 ==
    <<"1",".","6","1",".","0">>
V_1_61_0_1234567 ==
    <<"1",".","6","1",".","0"," ","(","1","2","3","4","5","6","7","a","b"," ","2","0","2","2","-","0","1","-","0","2",")">>
V_1_62_0_7654321 ==
    <<"1",".","6","2",".","0"," ","(","7","6","5","4","3","2","1","f","e"," ","2","0","2","2","-","0","2","-","0","1",")">>
V_1_63_0_beta_1 ==
    <<"1",".","6","3",".","0","-","b","e","t","a",".","1"," ","(","b","b","b","b","b","b","b","2","2"," ","2","0","2","2","-","0","2","-","0","1",")">>
V_1_64_0_nightly ==
    <<"1",".","6","4",".","0","-","n","i","g","h","t","l","y"," ","(","d","d","d","d","d","d","d","1","1"," ","2","0","2","2","-","0","2","-","0","1",")">>
V_cargo_0_62_0 ==
    <<"0",".","6","2",".","0"," ","(","a","1","b","2","c","3","d"," ","2","0","2","2","-","0","1","-","0","1",")">>
S_nightly ==
    <<"n","i","g","h","t","l","y">>
S_beta ==
    <<"b","e","t","a">>

\* str.contains(pat): some window of s equals pat.
Contains(s, pat) ==
    \E i \in 0..(Len(s) - Len(pat)) :
        \A j \in 1..Len(pat) : s[i + j] = pat[j]

\* &s[..n]
Prefix(s, n) == SubSeq(s, 1, n)

\* s.split(' ').next().unwrap(): the characters before the first space.
FirstToken(s) ==
    LET spaces == {i \in 1..Len(s) : s[i] = " "}
        stop == IF spaces = {} THEN Len(s) + 1
                ELSE CHOOSE i \in spaces : \A k \in spaces : i <= k
    IN SubSeq(s, 1, stop - 1)

\* ------------------------------------------------- revisions and artifacts
\* The commits an invocation may resolve (override_commit or the branch tip),
\* with the hash of each.
Revs == {"R1", "R2", "R3", "R4", "R5", "R6", "R7"}

Sha(r) ==
    CASE r = "R1" -> <<"a","b","c","d","e","f","1","2","3","4">>
      [] r = "R2" -> <<"1","2","3","4","5","6","7","a","b","c">>
      [] r = "R3" -> <<"7","6","5","4","3","2","1","f","e","d">>
      [] r = "R4" -> <<"b","b","b","b","b","b","b","2","2","2">>
      [] r = "R5" -> <<"d","d","d","d","d","d","d","1","1","1">>
      [] r = "R6" -> <<"e","e","e","e","e","e","e","0","0","0">>
      [] r = "R7" -> <<"f","f","f","f","f","f","f","9","9","9">>

\* Components CI builds; a tarball of component c is named <c>-....tar.xz.
FullComponents == {"rustc", "cargo", "rust-std", "rust-docs", "build-manifest"}

\* What CI uploaded under <download_dir>/<rev>/ for each revision:
\* the components, whether .tar.gz twins and leftover sidecars are there,
\* and a file no manifest refers to.
ArtifactComponents(r) ==
    CASE r = "R6" -> {"rustc", "rust-docs", "build-manifest"}
      [] r = "R7" -> {}
      [] OTHER -> FullComponents

CiHasGz(r) == r = "R5"
CiHasSidecars(r) == r = "R3"
CiHasUnshipped(r) == r \in {"R3", "R5"}

\* The contents of the "version" file inside the tarball of component c.
VersionFile(r, c) ==
    IF c = "cargo" THEN V_cargo_0_62_0
    ELSE CASE r = "R1" -> V_1_61_0
           [] r = "R2" -> V_1_61_0_1234567
           [] r = "R3" -> V_1_62_0_7654321
           [] r = "R4" -> V_1_63_0_beta_1
           [] r = "P-stable" -> V_1_61_0_abcdef1
           [] r = "P-beta" -> V_1_62_0_beta_1
           [] r = "P-nightly" -> V_1_63_0_nightly
           [] OTHER -> V_1_64_0_nightly

\* ------------------------------------------------------------------ files
\* The bytes of a file.  kind "file" is an artifact or a manifest; a sidecar
\* (kind "sha256" or "asc") records the bytes it was computed from; kind
\* "dir" is an entry that is a directory.
\*   what: "archive" | "manifest" | "other"
\*   enc : an archive's compression ("ci-xz" and "ci-gz" as CI wrote it,
\*         "max-xz" and "gz" as recompress_file writes it); for a
\*         manifest the base URL it points to ("upload", "smoke");
\*   rev : the revision the bytes were built from.
Bytes(kind, what, enc, r) == [kind |-> kind, what |-> what, enc |-> enc, rev |-> r]

ArchiveName(c, ext) == <<c, "tar", ext>>
UnshippedName == <<"toolstates-linux", "json">>

\* Path::extension(): the part after the last dot; a name without a dot,
\* or whose only dot is its first character, has none ("" here).
Extension(name) ==
    IF Len(name) < 2 \/ (Len(name) = 2 /\ name[1] = "") THEN ""
    ELSE name[Len(name)]

\* sign.rs add_suffix(path, ".sha256"): the suffix is appended to the name.
add_suffix(name, suffix) == Append(name, suffix)

\* xz_path.with_extension("gz")
with_extension(name, ext) == Append(SubSeq(name, 1, Len(name) - 1), ext)

\* A directory: a function from the names of its files to their bytes.
EmptyDir == << >>
Files(dir) == DOMAIN dir
RemoveFiles(dir, names) == [n \in DOMAIN dir \ names |-> dir[n]]

\* aws s3 cp --recursive <download_dir>/<rev>/ dl/: what lands in dl.
CiArtifacts(r) ==
    LET xz == {ArchiveName(c, "xz") : c \in ArtifactComponents(r)}
        gz == IF CiHasGz(r)
              THEN {ArchiveName(c, "gz") : c \in ArtifactComponents(r)} ELSE {}
        side == IF CiHasSidecars(r)
                THEN {add_suffix(ArchiveName("rustc", "xz"), s) : s \in {"asc", "sha256"}}
                ELSE {}
        other == IF CiHasUnshipped(r) THEN {UnshippedName} ELSE {}
    IN [n \in xz \cup gz \cup side \cup other |->
          IF n \in xz THEN Bytes("file", "archive", "ci-xz", r)
          ELSE IF n \in gz THEN Bytes("file", "archive", "ci-gz", r)
          ELSE IF n \in side THEN Bytes(Extension(n), "archive", "stale", r)
          ELSE Bytes("file", "other", "json", r)]

\* ------------------------------------------------------------------ state
VARIABLES
    today,          \* the UTC date (Utc::now())
    runs,           \* invocations started so far
    downloads,      \* invocations that downloaded artifacts so far
    lockHolder,     \* the invocation holding the lock on <work>/.lock
    pc,             \* each invocation's position in Context::run
    config,         \* each invocation's Config: action, channel and
                    \* bypass_startup_checks, each from where it is first read
    date,           \* Context.date
    rev,            \* do_release's rev
    previous_version,       \* do_release's previous_version
    current_version,        \* Context.current_version
    current_cargo_version,  \* Context.current_cargo_version
    result,         \* how Context::run returned
    log,            \* the steps the invocation has completed, in order
    shipped_files,  \* do_release's execution.shipped_files (discovery run)
    checksum_cache_file,    \* the file at BuildManifest.checksum_cache_path
    checksum_cache,         \* do_release's execution.checksum_cache
    sha256_checksum_cache,  \* Signer.sha256_checksum_cache
    branch,         \* do_branching's beta_sha and prebump_sha
    dl,             \* <work>/dl
    manifests,      \* <work>/manifests
    manifests_smoke,\* <work>/manifests-smoke
    bucket,         \* the publish bucket under <upload_dir>/
    docs,           \* the publish bucket under doc/
    heads,          \* rust-lang/rust: the commit of heads/stable and heads/beta
    cargo_refs,     \* rust-lang/cargo: the rust-<version> branches created
    call,           \* a call of one function by itself: the function and
                    \* its arguments
    returned,       \* what the calls of it made so far returned, in order
    batch,          \* one Context::recompress at the grain of its worker
                    \* threads: the pending files, each worker, the
                    \* directory on disk and the main thread
    smoke_test      \* one SmokeTester: the main thread in new and test,
                    \* the server thread, their channel and the port

vars == <<today, runs, downloads, lockHolder, pc, config, date, rev, previous_version,
          current_version, current_cargo_version, result, log, shipped_files,
          checksum_cache_file, checksum_cache, sha256_checksum_cache,
          branch, dl, manifests, manifests_smoke, bucket, docs, heads, cargo_refs,
          call, returned, batch, smoke_test>>

workdir == <<dl, manifests, manifests_smoke>>
remote == <<bucket, docs>>
github == <<heads, cargo_refs>>
gate == <<rev, previous_version>>
versions == <<current_version, current_cargo_version>>
caches == <<checksum_cache_file, checksum_cache, sha256_checksum_cache>>
frame == <<config, date, gate, versions, shipped_files, branch>>
locals == <<frame, caches>>
calls == <<call, returned, batch, smoke_test>>

\* ----------------------------------------------------------- the buckets
\* An object of the publish bucket is keyed by <<d, name>>: d = 0 is
\* <upload_dir>/<name>, d > 0 is <upload_dir>/<date d>/<name>.
TopLevel == 0

\* channel-rust-<channel>.toml
ManifestName(channel) == <<"channel-rust-" \o channel, "toml">>

\* manifest["pkg"]["rust"]["version"]: build-manifest copies it from the
\* version file of the rustc tarball it was run on.
ManifestVersion(bytes) == VersionFile(bytes.rev, "rustc")

\* The release each channel carried before the first invocation.
PreviousRelease(channel) ==
    CASE channel = "stable" -> "P-stable"
      [] channel = "beta" -> "P-beta"
      [] channel = "nightly" -> "P-nightly"

InitialBucket ==
    [k \in {<<TopLevel, ManifestName(c)>> : c \in Channels} |->
        Bytes("file", "manifest", "upload",
              PreviousRelease(CHOOSE c \in Channels : ManifestName(c) = k[2]))]

\* aws s3 cp --recursive <dir>/ s3://<bucket>/<upload_dir>/[<date>/]:
\* every file of dir is put (an object of the same key is replaced).
Upload(b, d, dir) ==
    [k \in DOMAIN b \cup {<<d, n>> : n \in DOMAIN dir} |->
        IF k[1] = d /\ k[2] \in DOMAIN dir THEN dir[k[2]] ELSE b[k]]

\* ------------------------------------------------------------------- Init
NoConfig == [action |-> "promote-release", channel |-> "nightly",
             bypass_startup_checks |-> FALSE, github |-> "unread",
             discourse |-> "unread", fastly |-> "unread",
             blog_repository |-> "unread"]
NoRev == "none"
NoResult == [kind |-> "none", at |-> "none"]
NoBranch == [beta_sha |-> 0, prebump_sha |-> 0]

\* The commits of rust-lang/rust the branches point to, named by the minor
\* version their src/version holds: stable @ 1.61.0, beta @ 1.62.0 and the
\* parent of the last version bump on master @ 1.63.0.
StableAtStart == 61
BetaAtStart == 62
PrebumpAtStart == 63

\* No function is called by itself while the program runs.
NoCall == [fn |-> "none", directory |-> EmptyDir, recompress_gz |-> FALSE,
           recompress_xz |-> FALSE, shipped_files |-> {}, sz |-> {},
           src |-> << >>, buf |-> << >>, destinations |-> {}, path |-> << >>]
NoReturned == [directories |-> << >>, dictsizes |-> << >>, overflowed |-> FALSE,
               status |-> "none", buf |-> << >>, total_length |-> 0,
               fed |-> << >>, keys |-> << >>]

\* The state main() starts from.
Constructed ==
    /\ today = 1
    /\ runs = 0
    /\ downloads = 0
    /\ lockHolder = NoProc
    /\ pc = [p \in Proc |-> "idle"]
    /\ config = [p \in Proc |-> NoConfig]
    /\ date = [p \in Proc |-> 0]
    /\ rev = [p \in Proc |-> NoRev]
    /\ previous_version = [p \in Proc |-> << >>]
    /\ current_version = [p \in Proc |-> {}]
    /\ current_cargo_version = [p \in Proc |-> {}]
    /\ result = [p \in Proc |-> NoResult]
    /\ log = [p \in Proc |-> << >>]
    /\ dl = EmptyDir
    /\ manifests = EmptyDir
    /\ manifests_smoke = EmptyDir
    /\ bucket = InitialBucket
    /\ docs = {}
    /\ shipped_files = [p \in Proc |-> {}]
    /\ checksum_cache_file = [p \in Proc |-> EmptyDir]
    /\ checksum_cache = [p \in Proc |-> EmptyDir]
    /\ sha256_checksum_cache = [p \in Proc |-> EmptyDir]
    /\ branch = [p \in Proc |-> NoBranch]
    /\ heads = [stable |-> StableAtStart, beta |-> BetaAtStart]
    /\ cargo_refs = {}

\* No Context::recompress is followed thread by thread.
NoBatch == [pc |-> "none", num_threads |-> 0, to_recompress |-> << >>,
            tasks |-> << >>, disk |-> EmptyDir, joined |-> 0,
            result |-> "none", log |-> << >>, len |-> [n \in {} |-> 0]]

\* No SmokeTester yet.
NoTester == [pc |-> "none", step |-> 0, thread |-> "none", server_mtx |-> {},
             server_addr |-> {}, shutdown_send |-> "none", joined |-> FALSE,
             port |-> "free", result |-> "none", paths |-> << >>,
             request |-> << >>, response |-> << >>]

Init ==
    /\ Constructed
    /\ call = NoCall
    /\ returned = NoReturned
    /\ batch = NoBatch
    /\ smoke_test = NoTester

\* ---------------------------------------------------------- control flow
\* The step `step` succeeded: go on at `next`.
Advance(p, step, next) ==
    /\ pc' = [pc EXCEPT ![p] = next]
    /\ log' = [log EXCEPT ![p] = Append(@, step)]
    /\ UNCHANGED result

\* Context::run returns: kind is "ok", a "skip-..." (both Ok(())), "error"
\* (an Err propagated by ?) or "panic"; `at` is the step that ended the run.
Return(p, kind, at) ==
    /\ pc' = [pc EXCEPT ![p] = "exit"]
    /\ result' = [result EXCEPT ![p] = [kind |-> kind, at |-> at]]
    /\ UNCHANGED log

\* A step that only calls an external service or tool: it succeeds or
\* fails with an error.
External(p, step, next) ==
    \E ok \in BOOLEAN :
        IF ok THEN Advance(p, step, next) ELSE Return(p, "error", step)

\* ------------------------------------------------------------------ main
\* main(): Config::from_env() and Context::new(), which reads the date.
\* Config is fixed here and never changes; what the environment held for a
\* field shows where the code first reads the field, and the model draws
\* the field's value there (action in run, channel in get_commit_sha,
\* bypass_startup_checks at the first short-circuit).
\* Invocations are alike: a new one takes the first free name.
Start(p) ==
    /\ pc[p] = "idle"
    /\ p = "inv1" \/ pc["inv1"] # "idle"
    /\ runs < MaxRuns
    /\ runs' = runs + 1
    /\ date' = [date EXCEPT ![p] = today]
    /\ pc' = [pc EXCEPT ![p] = "lock"]
    /\ UNCHANGED <<calls, today, downloads, lockHolder, config, gate, versions,
                   shipped_files, caches, branch, result, log, workdir, remote, github>>

\* Context::run with the lock file opened but never locked: the run goes on
\* whoever holds the lock.
LockNeverFails(p) ==
    /\ pc[p] = "lock"
    /\ lockHolder' = p
    /\ \E a \in ConfigActions :
          /\ config' = [config EXCEPT ![p].action = a]
          /\ Advance(p, "lock",
                     IF a = "promote-release"
                     THEN "get_commit_sha" ELSE "do_branching")
    /\ UNCHANGED <<calls, today, downloads, runs, date, gate, versions, shipped_files, caches,
                   branch, workdir, remote, github>>

\* Context::run: let _lock = self.lock()?; then the configured action.
\* try_lock_exclusive fails at once when another invocation holds the lock.
Lock(p) ==
    /\ pc[p] = "lock"
    /\ IF lockHolder = NoProc
       THEN /\ lockHolder' = p
            /\ \E a \in ConfigActions :
                  /\ config' = [config EXCEPT ![p].action = a]
                  /\ Advance(p, "lock",
                             IF a = "promote-release"
                             THEN "get_commit_sha" ELSE "do_branching")
       ELSE /\ Return(p, "error", "lock")
            /\ UNCHANGED <<lockHolder, config>>
    /\ UNCHANGED <<calls, today, downloads, runs, date, gate, versions, shipped_files, caches,
                   branch, workdir, remote, github>>

\* Context::run returns and the process ends: _lock is dropped, which
\* releases the lock if this invocation held it.
Exit(p) ==
    /\ pc[p] = "exit"
    /\ lockHolder' = IF lockHolder = p THEN NoProc ELSE lockHolder
    /\ pc' = [pc EXCEPT ![p] = "idle"]
    /\ config' = [config EXCEPT ![p] = NoConfig]
    /\ date' = [date EXCEPT ![p] = 0]
    /\ rev' = [rev EXCEPT ![p] = NoRev]
    /\ previous_version' = [previous_version EXCEPT ![p] = << >>]
    /\ current_version' = [current_version EXCEPT ![p] = {}]
    /\ current_cargo_version' = [current_cargo_version EXCEPT ![p] = {}]
    /\ result' = [result EXCEPT ![p] = NoResult]
    /\ log' = [log EXCEPT ![p] = << >>]
    /\ shipped_files' = [shipped_files EXCEPT ![p] = {}]
    /\ checksum_cache_file' = [checksum_cache_file EXCEPT ![p] = EmptyDir]
    /\ checksum_cache' = [checksum_cache EXCEPT ![p] = EmptyDir]
    /\ sha256_checksum_cache' = [sha256_checksum_cache EXCEPT ![p] = EmptyDir]
    /\ branch' = [branch EXCEPT ![p] = NoBranch]
    /\ UNCHANGED <<calls, today, downloads, runs, workdir, remote, github>>

\* Midnight UTC passes.
Tick ==
    /\ today < MaxDate
    /\ today' = today + 1
    /\ UNCHANGED <<calls, runs, downloads, lockHolder, pc, locals, result, log, workdir, remote,
                   github>>

\* ------------------------------------------------------ the release gate
\* download_file(url): 200 with the object, 404 without it, or any other
\* status (an error).
DownloadFile(key) ==
    IF key \in DOMAIN bucket THEN {"200", "other"} ELSE {"404", "other"}

DatedManifestKey(p) == <<date[p], ManifestName(config[p].channel)>>

\* get_commit_sha: the override commit or the tip of the channel's branch;
\* an error when the remote cannot be reached or lacks the ref.
GetCommitSha(p) ==
    /\ pc[p] = "get_commit_sha"
    /\ \E c \in Channels : config' = [config EXCEPT ![p].channel = c]
    /\ \/ \E r \in Revs :
            /\ rev' = [rev EXCEPT ![p] = r]
            /\ Advance(p, "get_commit_sha", "download_top_level_manifest")
       \/ /\ Return(p, "error", "get_commit_sha")
          /\ UNCHANGED rev
    /\ UNCHANGED <<calls, today, downloads, runs, lockHolder, date, previous_version,
                   versions, shipped_files, caches, branch, workdir, remote, github>>

\* download_top_level_manifest and previous_version.
DownloadTopLevelManifest(p) ==
    /\ pc[p] = "download_top_level_manifest"
    /\ LET key == <<TopLevel, ManifestName(config[p].channel)>> IN
       \E status \in DownloadFile(key) :
          IF status = "200"
          THEN /\ previous_version' =
                     [previous_version EXCEPT ![p] = ManifestVersion(bucket[key])]
               /\ Advance(p, "download_top_level_manifest", "check_rev")
          ELSE /\ Return(p, IF status = "404" THEN "panic" ELSE "error",
                         "download_top_level_manifest")
               /\ UNCHANGED previous_version
    /\ UNCHANGED <<calls, today, downloads, runs, lockHolder, config, date, rev,
                   versions, shipped_files, caches, branch, workdir, remote, github>>

\* previous_version.contains(&rev): the whole hash instead of its prefix.
FoundWholeRevInPreviousVersion(prev, r) ==
    Contains(prev, Sha(r))

\* previous_version.contains(&rev[..7])
FoundRevInPreviousVersion(prev, r) ==
    Contains(prev, Prefix(Sha(r), RevPrefixLen))

\* The first short-circuit with the flag test inverted.
RevCheckSkipsOnBypass(bypass, prev, r) ==
    bypass /\ Contains(prev, Prefix(Sha(r), RevPrefixLen))

\* if !bypass_startup_checks && previous_version.contains(&rev[..7])
RevCheckSkips(bypass, prev, r) ==
    ~bypass /\ FoundRevInPreviousVersion(prev, r)

\* The first short-circuit evaluated but not acted on: the run goes on
\* to the second whether or not the revision was found.
CheckRevNoReturn(p) ==
    /\ pc[p] = "check_rev"
    /\ \E bypass \in BOOLEAN :
          /\ config' = [config EXCEPT ![p].bypass_startup_checks = bypass]
          /\ Advance(p, "check_rev",
                     IF bypass THEN "download_artifacts"
                     ELSE "dated_manifest_exists")
    /\ UNCHANGED <<calls, today, downloads, runs, lockHolder, date, gate, versions,
                   shipped_files, caches, branch, workdir, remote, github>>

\* The first short-circuit.  When it does not fire, the second condition
\* calls dated_manifest_exists only with the bypass flag unset (&&).
CheckRev(p) ==
    /\ pc[p] = "check_rev"
    /\ \E bypass \in BOOLEAN :
          /\ config' = [config EXCEPT ![p].bypass_startup_checks = bypass]
          /\ IF RevCheckSkips(bypass, previous_version[p], rev[p])
             THEN Return(p, "skip-rev", "check_rev")
             ELSE Advance(p, "check_rev",
                          IF bypass THEN "download_artifacts"
                          ELSE "dated_manifest_exists")
    /\ UNCHANGED <<calls, today, downloads, runs, lockHolder, date, gate, versions,
                   shipped_files, caches, branch, workdir, remote, github>>

\* The second short-circuit with the answer of dated_manifest_exists
\* dropped: only a failed request ends the run.
DatedManifestExistsDiscarded(p) ==
    /\ pc[p] = "dated_manifest_exists"
    /\ \E status \in DownloadFile(DatedManifestKey(p)) :
          IF status \in {"200", "404"}
          THEN Advance(p, "dated_manifest_exists", "download_artifacts")
          ELSE Return(p, "error", "dated_manifest_exists")
    /\ UNCHANGED <<calls, today, downloads, runs, lockHolder, locals, workdir, remote, github>>

\* The second short-circuit with its test inverted: the run goes on when
\* the dated manifest is there.
DatedManifestExistsInverted(p) ==
    /\ pc[p] = "dated_manifest_exists"
    /\ \E status \in DownloadFile(DatedManifestKey(p)) :
          CASE status = "404" -> Return(p, "skip-dated", "dated_manifest_exists")
            [] status = "200" ->
                 Advance(p, "dated_manifest_exists", "download_artifacts")
            [] OTHER -> Return(p, "error", "dated_manifest_exists")
    /\ UNCHANGED <<calls, today, downloads, runs, lockHolder, locals, workdir, remote, github>>

\* The second short-circuit: dated_manifest_exists()?
DatedManifestExists(p) ==
    /\ pc[p] = "dated_manifest_exists"
    /\ \E status \in DownloadFile(DatedManifestKey(p)) :
          CASE status = "200" -> Return(p, "skip-dated", "dated_manifest_exists")
            [] status = "404" ->
                 Advance(p, "dated_manifest_exists", "download_artifacts")
            [] OTHER -> Return(p, "error", "dated_manifest_exists")
    /\ UNCHANGED <<calls, today, downloads, runs, lockHolder, locals, workdir, remote, github>>

\* Only the signatures are deleted after the copy.
IsSignature(name) == Extension(name) = "asc"

\* The files download_artifacts deletes after the copy.
IsSidecar(name) == Extension(name) \in {"asc", "sha256"}

\* download_artifacts: dl is emptied, the revision's artifacts are copied
\* into it, and the .asc and .sha256 files among them are deleted.
DownloadArtifacts(p) ==
    /\ pc[p] = "download_artifacts"
    /\ downloads < MaxDownloads
    /\ downloads' = downloads + 1
    /\ \E copied \in BOOLEAN :
          IF ~copied
          THEN /\ dl' = EmptyDir
               /\ Return(p, "error", "download_artifacts")
          ELSE LET files == CiArtifacts(rev[p]) IN
               IF Files(files) = {}
               THEN /\ dl' = files
                    /\ Return(p, "panic", "download_artifacts")
               ELSE /\ dl' = RemoveFiles(files, {n \in Files(files) : IsSidecar(n)})
                    /\ Advance(p, "download_artifacts", "current_version_same")
    /\ UNCHANGED <<calls, today, runs, lockHolder, locals, manifests, manifests_smoke,
                   remote, github>>

\* load_version(filter): the version file of a .tar.xz of dl whose name
\* starts with the component; None when there is no such tarball.
load_version(dir, component) ==
    LET found == {n \in Files(dir) :
                    /\ n[1] = component
                    /\ Len(n) = 3 /\ n[2] = "tar" /\ n[3] = "xz"}
    IN {VersionFile(dir[n].rev, component) : n \in found}

\* The channel-switch test without its beta half.
ChannelsSwitchedNightlyOnly(current, prev) ==
    Contains(current, S_nightly) /\ ~Contains(prev, S_nightly)

\* The channel-switch test of current_version_same.
ChannelsSwitched(current, prev) ==
    \/ Contains(current, S_nightly) /\ ~Contains(prev, S_nightly)
    \/ Contains(current, S_beta) /\ ~Contains(prev, S_beta)

\* current_version_same storing the rustc version only.
current_version_same_rustc_only(channel, prev, dir) ==
    IF channel = "nightly"
    THEN [returns |-> "false", rustc |-> {}, cargo |-> {}]
    ELSE
    LET rustcs == load_version(dir, "rustc")
    IN IF rustcs = {}
       THEN [returns |-> "error", rustc |-> {}, cargo |-> {}]
       ELSE
       LET current == CHOOSE v \in rustcs : TRUE
           current_rustc == FirstToken(current)
       IN [returns |->
              IF ChannelsSwitched(current, prev) THEN "panic"
              ELSE IF FirstToken(prev) = current_rustc THEN "true"
              ELSE "false",
           rustc |-> {current_rustc},
           cargo |-> {}]

\* current_version_same(prev) on a directory: how it returns ("true",
\* "false", "error", "panic") and what it stored in current_version and
\* current_cargo_version before returning.
current_version_same(channel, prev, dir) ==
    IF channel = "nightly"
    THEN [returns |-> "false", rustc |-> {}, cargo |-> {}]
    ELSE
    LET rustcs == load_version(dir, "rustc")
        cargos == load_version(dir, "cargo")
    IN IF rustcs = {}
       THEN [returns |-> "error", rustc |-> {}, cargo |-> {}]
       ELSE
       LET current == CHOOSE v \in rustcs : TRUE
           current_rustc == FirstToken(current)
       IN IF cargos = {}
          THEN [returns |-> "error", rustc |-> {current_rustc}, cargo |-> {}]
          ELSE
          LET current_cargo == FirstToken(CHOOSE v \in cargos : TRUE)
          IN [returns |->
                 IF ChannelsSwitched(current, prev) THEN "panic"
                 ELSE IF FirstToken(prev) = current_rustc THEN "true"
                 ELSE "false",
              rustc |-> {current_rustc},
              cargo |-> {current_cargo}]

\* The third short-circuit without the flag test.
VersionCheckSkipsDespiteBypass(same, bypass) == same = "true"

\* if self.current_version_same(previous_version)? && !bypass_startup_checks
VersionCheckSkips(same, bypass) == same = "true" /\ ~bypass

\* The third short-circuit with its operands swapped
\* (!bypass_startup_checks && self.current_version_same(..)?): with the
\* flag set the probe is not run.
CurrentVersionSameAfterFlag(p) ==
    /\ pc[p] = "current_version_same"
    /\ IF config[p].bypass_startup_checks
       THEN /\ Advance(p, "current_version_same", "assert_all_components_present")
            /\ UNCHANGED versions
       ELSE LET r == current_version_same(config[p].channel, previous_version[p], dl) IN
            /\ current_version' = [current_version EXCEPT ![p] = r.rustc]
            /\ current_cargo_version' = [current_cargo_version EXCEPT ![p] = r.cargo]
            /\ IF r.returns \in {"error", "panic"}
               THEN Return(p, r.returns, "current_version_same")
               ELSE IF r.returns = "true"
               THEN Return(p, "skip-version", "current_version_same")
               ELSE Advance(p, "current_version_same", "assert_all_components_present")
    /\ UNCHANGED <<calls, today, downloads, runs, lockHolder, config, date, gate, shipped_files, caches,
                   branch, workdir, remote, github>>

\* The version probe and the third short-circuit.
CurrentVersionSame(p) ==
    /\ pc[p] = "current_version_same"
    /\ LET r == current_version_same(config[p].channel, previous_version[p], dl) IN
         /\ current_version' = [current_version EXCEPT ![p] = r.rustc]
         /\ current_cargo_version' = [current_cargo_version EXCEPT ![p] = r.cargo]
         /\ IF r.returns \in {"error", "panic"}
            THEN Return(p, r.returns, "current_version_same")
            ELSE IF VersionCheckSkips(r.returns, config[p].bypass_startup_checks)
            THEN Return(p, "skip-version", "current_version_same")
            ELSE Advance(p, "current_version_same", "assert_all_components_present")
    /\ UNCHANGED <<calls, today, downloads, runs, lockHolder, config, date, gate, shipped_files, caches,
                   branch, workdir, remote, github>>

\* ------------------------------------------------- the release pipeline
\* The frame of a step that changes only the invocation's position.
StepOnly == UNCHANGED <<calls, today, downloads, runs, lockHolder, locals, workdir, remote, github>>

\* assert_all_components_present: on nightly the artifacts must hold a
\* rustc-, a rust-std- and a cargo- file (assert!, a panic).
ComponentsPresent(dir) ==
    \A c \in {"rustc", "rust-std", "cargo"} : \E n \in Files(dir) : n[1] = c

\* do_release without the recompression of the non-nightly channels.
AssertThenSignerNew(p) ==
    /\ pc[p] = "assert_all_components_present"
    /\ IF config[p].channel = "nightly" /\ ~ComponentsPresent(dl)
       THEN Return(p, "panic", "assert_all_components_present")
       ELSE Advance(p, "assert_all_components_present", "signer_new")
    /\ StepOnly

AssertAllComponentsPresent(p) ==
    /\ pc[p] = "assert_all_components_present"
    /\ IF config[p].channel = "nightly" /\ ~ComponentsPresent(dl)
       THEN Return(p, "panic", "assert_all_components_present")
       ELSE Advance(p, "assert_all_components_present",
                    IF config[p].channel # "nightly"
                    THEN "recompress_release" ELSE "signer_new")
    /\ StepOnly

\* Context::recompress with recompress_file writing a .gz only when
\* recompress_gz is set.
recompress_gz_only_forced(dir, recompress_gz, recompress_xz) ==
    LET xzs == {n \in Files(dir) : Extension(n) = "xz"}
        kept == IF recompress_gz
                THEN RemoveFiles(dir, {n \in Files(dir) : Extension(n) = "gz"})
                ELSE dir
        new_gz == IF recompress_gz THEN xzs ELSE {}
        names == Files(kept) \cup {with_extension(n, "gz") : n \in new_gz}
    IN [m \in names |->
          IF m \in xzs
          THEN IF recompress_xz
               THEN Bytes("file", kept[m].what, "max-xz", kept[m].rev)
               ELSE kept[m]
          ELSE IF m \in Files(kept) THEN kept[m]
          ELSE LET src == CHOOSE n \in new_gz : with_extension(n, "gz") = m
               IN Bytes("file", kept[src].what, "gz", kept[src].rev)]

\* Context::recompress(directory) run to its end: with recompress_gz the
\* .gz files are removed first; each .xz gets a .gz when recompress_gz is
\* set or it has none, and is re-encoded when recompress_xz is set.
recompress(dir, recompress_gz, recompress_xz) ==
    LET xzs == {n \in Files(dir) : Extension(n) = "xz"}
        kept == IF recompress_gz
                THEN RemoveFiles(dir, {n \in Files(dir) : Extension(n) = "gz"})
                ELSE dir
        new_gz == {n \in xzs : with_extension(n, "gz") \notin Files(kept)}
        names == Files(kept) \cup {with_extension(n, "gz") : n \in new_gz}
    IN [m \in names |->
          IF m \in xzs
          THEN IF recompress_xz
               THEN Bytes("file", kept[m].what, "max-xz", kept[m].rev)
               ELSE kept[m]
          ELSE IF m \in Files(kept) THEN kept[m]
          ELSE LET src == CHOOSE n \in new_gz : with_extension(n, "gz") = m
               IN Bytes("file", kept[src].what, "gz", kept[src].rev)]

\* A Context::recompress call whose error is dropped (let _ = ...): the
\* run goes on with dl as the failed pass left it.
RecompressCallErrorDropped(p, here, next) ==
    /\ pc[p] = here
    /\ \E ok \in BOOLEAN, gz \in BOOLEAN, xz \in BOOLEAN :
          IF ok
          THEN /\ dl' = recompress(dl, gz, xz)
               /\ Advance(p, here, next)
          ELSE /\ dl' = dl
               /\ pc' = [pc EXCEPT ![p] = next]
               /\ UNCHANGED <<log, result>>
    /\ UNCHANGED <<calls, today, downloads, runs, lockHolder, locals, manifests, manifests_smoke,
                   remote, github>>

\* A Context::recompress call of do_release.  recompress_gz and
\* recompress_xz are Config fields nothing else reads: they are drawn here.
RecompressCall(p, here, next) ==
    /\ pc[p] = here
    /\ \E ok \in BOOLEAN, gz \in BOOLEAN, xz \in BOOLEAN :
          IF ok
          THEN /\ dl' = recompress(dl, gz, xz)
               /\ Advance(p, here, next)
          ELSE /\ dl' = dl
               /\ Return(p, "error", here)
    /\ UNCHANGED <<calls, today, downloads, runs, lockHolder, locals, manifests, manifests_smoke,
                   remote, github>>

\* if self.config.channel != Channel::Nightly { self.recompress(dl)? }
RecompressRelease(p) == RecompressCall(p, "recompress_release", "signer_new")

\* The nightly recompression followed at once by the real manifest run,
\* the checksum cache left as the discovery run wrote it.
RecompressNightlyThenManifest(p) ==
    RecompressCall(p, "recompress_nightly", "manifest_real")

\* if self.config.channel == Channel::Nightly { self.recompress(dl)? }
RecompressNightly(p) == RecompressCall(p, "recompress_nightly", "clear_checksum_cache")

\* Signer::new: the key and password files are read.
SignerNew(p) ==
    /\ pc[p] = "signer_new"
    /\ External(p, "signer_new", "build_manifest_new")
    /\ StepOnly

\* BuildManifest::new: the build-manifest binary is extracted from its
\* tarball, named after release_name (on stable current_version.unwrap()).
BuildManifestNew(p) ==
    /\ pc[p] = "build_manifest_new"
    /\ IF config[p].channel = "stable" /\ current_version[p] = {}
       THEN Return(p, "panic", "build_manifest_new")
       ELSE IF ArchiveName("build-manifest", "xz") \notin Files(dl)
       THEN Return(p, "error", "build_manifest_new")
       ELSE External(p, "build_manifest_new", "smoke_tester_new")
    /\ StepOnly

\* SmokeTester::new: the local server is started on the two directories.
SmokeTesterNew(p) ==
    /\ pc[p] = "smoke_tester_new"
    /\ Advance(p, "smoke_tester_new", "manifest_discovery")
    /\ StepOnly

\* The build-manifest tool on dl: the manifest it writes into the output
\* directory (none without a rustc tarball to take the version from) and
\* the files of dl the manifest refers to.
ToolManifest(dir, channel, base) ==
    LET rustc == ArchiveName("rustc", "xz") IN
    IF rustc \notin Files(dir) THEN EmptyDir
    ELSE [n \in {ManifestName(channel)} |->
             Bytes("file", "manifest", base, dir[rustc].rev)]

ToolShippedFiles(dir) ==
    {n \in Files(dir) : dir[n].kind = "file" /\ dir[n].what = "archive"}

\* The build-manifest binary is the one of the release (the build-manifest
\* tarball of dl).  Old tools write no shipped-files file (before
\* rust-lang/rust#78196) or no checksum cache (before rust-lang/rust#78409).
ToolRev(dir) == dir[ArchiveName("build-manifest", "xz")].rev
ToolReportsShippedFiles(r) == r # "R3"
ToolWritesChecksumCache(r) == r # "R4"

\* The SHA-256 digest of a file's bytes.
Sha256(bytes) == Bytes("sha256", bytes.what, bytes.enc, bytes.rev)

\* path.canonicalize(): the absolute path of a file of a work directory.
canonicalize(root, name) == <<root>> \o name

\* The file the tool leaves at BUILD_MANIFEST_CHECKSUM_CACHE: the entries
\* the file had are kept as they are and the digest of every shipped file
\* without an entry is computed and added.
ToolChecksumCache(dir, old) ==
    LET shipped == {canonicalize("dl", n) : n \in ToolShippedFiles(dir)}
    IN [k \in DOMAIN old \cup shipped |->
          IF k \in DOMAIN old THEN old[k] ELSE Sha256(dir[Tail(k)])]

\* BuildManifest::run(upload_base, dest): dest is emptied, the shipped-files
\* file of the run before is removed, the tool runs; a non-zero exit is an
\* error.  shipped_file is the shipped-files file afterwards (an Option)
\* and cache_file the checksum cache file.
build_manifest_run(dir, channel, base, old_cache) ==
    {[ok |-> FALSE, dest |-> EmptyDir, shipped_file |-> {}, cache_file |-> old_cache]}
    \cup
    (IF ToolManifest(dir, channel, base) = EmptyDir THEN {}
     ELSE {[ok |-> TRUE, dest |-> ToolManifest(dir, channel, base),
            shipped_file |-> IF ToolReportsShippedFiles(ToolRev(dir))
                             THEN {ToolShippedFiles(dir)} ELSE {},
            cache_file |-> IF ToolWritesChecksumCache(ToolRev(dir))
                           THEN ToolChecksumCache(dir, old_cache)
                           ELSE old_cache]})

\* Execution::new with the Option<_> of shipped_files removed: a missing
\* shipped-files file reads as an empty set.
ExecutionNewWithoutOption(shipped_file, cache_file) ==
    [shipped_files |-> IF shipped_file = {} THEN {{}} ELSE shipped_file,
     checksum_cache |-> cache_file]

\* Execution::new(shipped_files_path, checksum_cache_path): shipped_files
\* is Some(the lines of the file) when the file is there and None when it
\* is not; checksum_cache is the JSON of the cache file and an empty map
\* without the file (a cache file is never left empty: EmptyDir stands
\* for no file).
ExecutionNew(shipped_file, cache_file) ==
    [shipped_files |-> IF shipped_file # {}
                       THEN {CHOOSE lines \in shipped_file : TRUE} ELSE {},
     checksum_cache |-> IF cache_file # EmptyDir THEN cache_file ELSE EmptyDir]

\* The discovery run, into the real manifest directory.
ManifestDiscovery(p) ==
    /\ pc[p] = "manifest_discovery"
    /\ \E run \in build_manifest_run(dl, config[p].channel, "upload",
                                      checksum_cache_file[p]) :
          /\ manifests' = run.dest
          /\ checksum_cache_file' = [checksum_cache_file EXCEPT ![p] = run.cache_file]
          /\ IF run.ok
             THEN LET execution == ExecutionNew(run.shipped_file, run.cache_file) IN
                  /\ shipped_files' =
                        [shipped_files EXCEPT ![p] = execution.shipped_files]
                  /\ checksum_cache' =
                        [checksum_cache EXCEPT ![p] = execution.checksum_cache]
                  /\ Advance(p, "manifest_discovery", "prune_unused_files")
             ELSE /\ Return(p, "error", "manifest_discovery")
                  /\ UNCHANGED <<shipped_files, checksum_cache>>
    /\ UNCHANGED <<calls, today, downloads, runs, lockHolder, config, date, gate, versions, branch,
                   sha256_checksum_cache, dl, manifests_smoke, remote, github>>

\* The test of prune_unused_files inverted: the shipped files are removed.
prune_shipped_files(dir, shipped) ==
    RemoveFiles(dir, {n \in Files(dir) : n \in shipped})

\* prune_unused_files(shipped_files): every entry of dl whose name is not
\* in the set is removed.
prune_unused_files(dir, shipped) ==
    RemoveFiles(dir, {n \in Files(dir) : n \notin shipped})

\* The call self.prune_unused_files(&execution.shipped_files) with
\* execution.shipped_files an Option: with None the pruning is skipped.
prune_if_reported(dir, shipped) ==
    IF shipped = {} THEN dir
    ELSE prune_unused_files(dir, CHOOSE s \in shipped : TRUE)

PruneUnusedFiles(p) ==
    /\ pc[p] = "prune_unused_files"
    /\ dl' = prune_if_reported(dl, shipped_files[p])
    /\ Advance(p, "prune_unused_files",
               IF config[p].channel = "nightly"
               THEN "recompress_nightly" ELSE "clear_checksum_cache")
    /\ UNCHANGED <<calls, today, downloads, runs, lockHolder, locals, manifests, manifests_smoke,
                   remote, github>>

\* BuildManifest::clear_checksum_cache: the checksum cache file is removed.
clear_checksum_cache(cache_file) == EmptyDir

\* build_manifest.clear_checksum_cache()?
ClearChecksumCache(p) ==
    /\ pc[p] = "clear_checksum_cache"
    /\ \E ok \in BOOLEAN :
          IF ok
          THEN /\ checksum_cache_file' =
                     [checksum_cache_file EXCEPT
                        ![p] = clear_checksum_cache(checksum_cache_file[p])]
               /\ Advance(p, "clear_checksum_cache", "manifest_real")
          ELSE /\ UNCHANGED checksum_cache_file
               /\ Return(p, "error", "clear_checksum_cache")
    /\ UNCHANGED <<calls, today, downloads, runs, lockHolder, frame, checksum_cache,
                   sha256_checksum_cache, workdir, remote, github>>

\* The real manifest run with its Execution dropped: `execution` stays the
\* one of the discovery run.
ManifestRealExecutionDropped(p) ==
    /\ pc[p] = "manifest_real"
    /\ \E run \in build_manifest_run(dl, config[p].channel, "upload",
                                      checksum_cache_file[p]) :
          /\ manifests' = run.dest
          /\ checksum_cache_file' = [checksum_cache_file EXCEPT ![p] = run.cache_file]
          /\ IF run.ok THEN Advance(p, "manifest_real", "manifest_smoke")
             ELSE Return(p, "error", "manifest_real")
    /\ UNCHANGED <<calls, today, downloads, runs, lockHolder, frame, checksum_cache,
                   sha256_checksum_cache, dl, manifests_smoke, remote, github>>

\* The real manifests, pointing to the public download endpoint.
ManifestReal(p) ==
    /\ pc[p] = "manifest_real"
    /\ \E run \in build_manifest_run(dl, config[p].channel, "upload",
                                      checksum_cache_file[p]) :
          /\ manifests' = run.dest
          /\ checksum_cache_file' = [checksum_cache_file EXCEPT ![p] = run.cache_file]
          /\ IF run.ok
             THEN /\ checksum_cache' =
                        [checksum_cache EXCEPT
                           ![p] = ExecutionNew(run.shipped_file,
                                               run.cache_file).checksum_cache]
                  /\ Advance(p, "manifest_real", "manifest_smoke")
             ELSE /\ UNCHANGED checksum_cache
                  /\ Return(p, "error", "manifest_real")
    /\ UNCHANGED <<calls, today, downloads, runs, lockHolder, frame, sha256_checksum_cache, dl,
                   manifests_smoke, remote, github>>

\* The smoke test manifests, pointing to the smoke test server; the
\* Execution of this run is dropped.
ManifestSmoke(p) ==
    /\ pc[p] = "manifest_smoke"
    /\ \E run \in build_manifest_run(dl, config[p].channel, "smoke",
                                      checksum_cache_file[p]) :
          /\ manifests_smoke' = run.dest
          /\ checksum_cache_file' = [checksum_cache_file EXCEPT ![p] = run.cache_file]
          /\ IF run.ok THEN Advance(p, "manifest_smoke", "sign_dl")
             ELSE Return(p, "error", "manifest_smoke")
    /\ UNCHANGED <<calls, today, downloads, runs, lockHolder, frame, checksum_cache,
                   sha256_checksum_cache, dl, manifests, remote, github>>

\* Only the GPG signatures are excluded.
should_exclude_signature(name) == Extension(name) = "asc"

\* sign.rs should_exclude_path
should_exclude_path(name) == Extension(name) \in {"asc", "sha256"}

\* Signer::generate_sha256(path, data): the digest written to
\* <path>.sha256 is the cache's entry for the canonical path when there
\* is one and the digest of data otherwise.
generate_sha256(path, data, cache) ==
    IF path \in DOMAIN cache THEN cache[path] ELSE Sha256(data)

\* Signer::gpg_sign(data): the detached signature of data.
gpg_sign(data) == Bytes("asc", data.what, data.enc, data.rev)

\* Signer::sign_directory(dir), dir being <work>/<root>: every entry that
\* is a file and is not excluded gets a .sha256 and an .asc (Signer::sign).
sign_directory(root, dir, cache) ==
    LET paths == {n \in Files(dir) : dir[n].kind # "dir" /\ ~should_exclude_path(n)}
        sidecars == {add_suffix(n, s) : n \in paths, s \in {"sha256", "asc"}}
    IN [m \in Files(dir) \cup sidecars |->
          IF m \in sidecars
          THEN LET n == SubSeq(m, 1, Len(m) - 1) IN
               IF Extension(m) = "sha256"
               THEN generate_sha256(canonicalize(root, n), dir[n], cache)
               ELSE gpg_sign(dir[n])
          ELSE dir[m]]

\* signer.override_checksum_cache(execution.checksum_cache);
\* signer.sign_directory(&self.dl_dir())?
SignDl(p) ==
    /\ pc[p] = "sign_dl"
    /\ sha256_checksum_cache' =
          [sha256_checksum_cache EXCEPT ![p] = checksum_cache[p]]
    /\ \E ok \in BOOLEAN :
          IF ok
          THEN /\ dl' = sign_directory("dl", dl, sha256_checksum_cache'[p])
               /\ Advance(p, "sign_dl", "sign_real")
          ELSE dl' = dl /\ Return(p, "error", "sign_dl")
    /\ UNCHANGED <<calls, today, downloads, runs, lockHolder, frame, checksum_cache_file,
                   checksum_cache, manifests, manifests_smoke, remote, github>>

SignReal(p) ==
    /\ pc[p] = "sign_real"
    /\ \E ok \in BOOLEAN :
          IF ok
          THEN /\ manifests' = sign_directory("manifests", manifests,
                                             sha256_checksum_cache[p])
               /\ Advance(p, "sign_real", "sign_smoke")
          ELSE /\ manifests' = manifests
               /\ Return(p, "error", "sign_real")
    /\ UNCHANGED <<calls, today, downloads, runs, lockHolder, locals, dl, manifests_smoke, remote,
                   github>>

SignSmoke(p) ==
    /\ pc[p] = "sign_smoke"
    /\ \E ok \in BOOLEAN :
          IF ok
          THEN /\ manifests_smoke' = sign_directory("manifests-smoke", manifests_smoke,
                                                   sha256_checksum_cache[p])
               /\ Advance(p, "sign_smoke", "smoke_remove")
          ELSE /\ manifests_smoke' = manifests_smoke
               /\ Return(p, "error", "sign_smoke")
    /\ UNCHANGED <<calls, today, downloads, runs, lockHolder, locals, dl, manifests, remote, github>>

\* SmokeTester::test: rustup toolchain remove, rustup toolchain install,
\* cargo init and cargo run, each ending the test with an error when it
\* fails; after cargo run the server is shut down.
SmokeRemove(p) ==
    /\ pc[p] = "smoke_remove"
    /\ External(p, "smoke_remove", "smoke_install")
    /\ StepOnly

\* rustup toolchain install with its exit status unchecked.
SmokeInstallUnchecked(p) ==
    /\ pc[p] = "smoke_install"
    /\ \E ok \in BOOLEAN :
          IF ok THEN Advance(p, "smoke_install", "smoke_init")
          ELSE /\ pc' = [pc EXCEPT ![p] = "smoke_init"]
               /\ UNCHANGED <<log, result>>
    /\ StepOnly

SmokeInstall(p) ==
    /\ pc[p] = "smoke_install"
    /\ External(p, "smoke_install", "smoke_init")
    /\ StepOnly

SmokeInit(p) ==
    /\ pc[p] = "smoke_init"
    /\ External(p, "smoke_init", "smoke_run")
    /\ StepOnly

SmokeRun(p) ==
    /\ pc[p] = "smoke_run"
    /\ External(p, "smoke_run", "merge")
    /\ StepOnly

\* self.smoke_manifest_dir() in the place of self.real_manifest_dir().
MergedDirSmoke == "manifests-smoke"

\* The directory whose files do_release moves into dl before publishing:
\* self.real_manifest_dir().
MergedDir == "manifests"

\* for entry in read_dir(real_manifest_dir) { rename(entry, dl/<name>) }
Merge(p) ==
    /\ pc[p] = "merge"
    /\ LET from == IF MergedDir = "manifests" THEN manifests ELSE manifests_smoke IN
         /\ dl' = [n \in Files(dl) \cup Files(from) |->
                     IF n \in Files(from) THEN from[n] ELSE dl[n]]
         /\ manifests' = IF MergedDir = "manifests" THEN EmptyDir ELSE manifests
         /\ manifests_smoke' =
               IF MergedDir = "manifests" THEN manifests_smoke ELSE EmptyDir
    /\ Advance(p, "merge", "publish_archive")
    /\ UNCHANGED <<calls, today, downloads, runs, lockHolder, locals, remote, github>>

\* What a failed aws s3 cp may have put before failing: nothing, or the
\* archives and their sidecars but not the manifests.
PartialCopies(dir) ==
    {EmptyDir, RemoveFiles(dir, {n \in Files(dir) : dir[n].what = "manifest"})}

\* aws s3 cp --recursive dl/ s3://<bucket>/<upload_dir>/<d>/ by run(): all
\* of dl is put and the step succeeds, or the command fails.
PublishTo(p, step, d, next) ==
    /\ pc[p] = step
    /\ \/ /\ bucket' = Upload(bucket, d, dl)
          /\ Advance(p, step, next)
       \/ \E part \in PartialCopies(dl) :
            /\ bucket' = Upload(bucket, d, part)
            /\ Return(p, "error", step)
    /\ UNCHANGED <<calls, today, downloads, runs, lockHolder, locals, workdir, docs, github>>

\* publish_archive with the status of the copy dropped.
PublishArchiveUnchecked(p) ==
    /\ pc[p] = "publish_archive"
    /\ \E part \in PartialCopies(dl) \cup {dl} :
          /\ bucket' = Upload(bucket, date[p], part)
          /\ Advance(p, "publish_archive", "publish_docs")
    /\ UNCHANGED <<calls, today, downloads, runs, lockHolder, locals, workdir, docs, github>>

\* publish_archive: dl goes to <upload_dir>/<date>/.
PublishArchive(p) == PublishTo(p, "publish_archive", date[p], "publish_docs")

\* publish_release: dl goes to <upload_dir>/.
PublishRelease(p) == PublishTo(p, "publish_release", TopLevel, "invalidate_releases")

\* aws s3 sync --delete docs/ s3://<bucket>/doc/<dir>/
SyncDocs(d, dir, version, r) ==
    {x \in d : ~(x.dir = dir /\ x.version = version)}
        \cup {[dir |-> dir, version |-> version, rev |-> r]}

\* publish_docs: the rust-docs .tar.gz of dl is unpacked and synced to
\* doc/<channel>/ and, on stable, to doc/<version>/ as well.
PublishDocs(p) ==
    /\ pc[p] = "publish_docs"
    /\ LET tarball == ArchiveName("rust-docs", "gz")
           stable == config[p].channel = "stable"
       IN IF stable /\ current_version[p] = {}
          THEN UNCHANGED docs /\ Return(p, "panic", "publish_docs")
          ELSE IF tarball \notin Files(dl)
          THEN UNCHANGED docs /\ Return(p, "error", "publish_docs")
          ELSE LET first == SyncDocs(docs, config[p].channel, << >>, dl[tarball].rev)
                   version == CHOOSE v \in current_version[p] : TRUE
               IN \E synced \in 0..(IF stable THEN 2 ELSE 1) :
                    /\ docs' = CASE synced = 0 -> docs
                                 [] synced = 1 -> first
                                 [] synced = 2 ->
                                      SyncDocs(first, "", version, dl[tarball].rev)
                    /\ \/ /\ synced = IF stable THEN 2 ELSE 1
                          /\ Advance(p, "publish_docs", "publish_release")
                       \/ Return(p, "error", "publish_docs")
    /\ UNCHANGED <<calls, today, downloads, runs, lockHolder, locals, workdir, bucket, github>>

\* Config::github(), discourse() and fastly(): a client only when both
\* of its two settings are in the environment.
Client(first, second) == IF first /\ second THEN "present" ELSE "absent"

\* What the environment held for a client or an optional setting shows
\* where the code first reads it; later reads see the same.
Setting(p, field) ==
    IF config[p][field] # "unread" THEN {config[p][field]}
    ELSE {Client(a, b) : a \in BOOLEAN, b \in BOOLEAN}

\* Calls of remote services made one after the other, each with `?`:
\* the ones made, the one that failed marked, and whether all succeeded.
Failed(op) == op \o " failed"
Calling(ops) ==
    {[contacted |-> Append(SubSeq(ops, 1, k - 1), Failed(ops[k])), ok |-> FALSE] :
        k \in 1 .. Len(ops)}
       \cup {[contacted |-> ops, ok |-> TRUE]}
Nothing == {[contacted |-> << >>, ok |-> TRUE]}
Then(first, second) ==
    {o \in first : ~o.ok}
       \cup {[contacted |-> a.contacted \o b.contacted, ok |-> b.ok] :
               a \in {o \in first : o.ok}, b \in second}

\* A handler of do_release returns: the services it contacted are in the
\* log, then the step itself if it returned Ok; an Err ends the run.
Handled(p, step, next, o) ==
    /\ log' = [log EXCEPT ![p] =
                  @ \o o.contacted \o (IF o.ok THEN <<step>> ELSE << >>)]
    /\ pc' = [pc EXCEPT ![p] = IF o.ok THEN next ELSE "exit"]
    /\ result' = [result EXCEPT ![p] =
                     IF ~o.ok THEN [kind |-> "error", at |-> step]
                     ELSE IF next = "exit" THEN [kind |-> "ok", at |-> step]
                     ELSE @]

\* A handler of do_release panics on an `expect` after the calls it made.
Panics(p, step, contacted) ==
    /\ log' = [log EXCEPT ![p] = @ \o contacted]
    /\ pc' = [pc EXCEPT ![p] = "exit"]
    /\ result' = [result EXCEPT ![p] = [kind |-> "panic", at |-> step]]

\* invalidate_cloudfront: skipped when configured so; else the payload is
\* written (which may fail) and aws cloudfront create-invalidation run.
invalidate_cloudfront(skip_cloudfront_invalidations) ==
    IF skip_cloudfront_invalidations THEN Nothing
    ELSE Calling(<<"write_payload", "cloudfront">>)

\* invalidate_fastly with the client taken for configured whatever the
\* environment holds.
invalidate_fastly_unchecked(enabled, fastly) ==
    IF ~enabled THEN Nothing ELSE Calling(<<"fastly">>)

\* invalidate_fastly: opt-in, and skipped with a warning without a client.
invalidate_fastly(enabled, fastly) ==
    IF ~enabled \/ fastly = "absent" THEN Nothing
    ELSE Calling(<<"fastly">>)

\* invalidate_releases: CloudFront, then Fastly, each with `?`.
InvalidateReleases(p) ==
    /\ pc[p] = "invalidate_releases"
    /\ \E skip \in BOOLEAN, enabled \in BOOLEAN :
          \E o \in invalidate_cloudfront(skip) :
             IF o.ok /\ enabled
             THEN \E fastly \in Setting(p, "fastly") :
                     /\ config' = [config EXCEPT ![p].fastly = fastly]
                     /\ \E f \in invalidate_fastly(enabled, fastly) :
                           Handled(p, "invalidate_releases", "remove_dl",
                                   [contacted |-> o.contacted \o f.contacted,
                                    ok |-> f.ok])
             ELSE /\ UNCHANGED config
                  /\ Handled(p, "invalidate_releases", "remove_dl", o)
    /\ UNCHANGED <<calls, today, downloads, runs, lockHolder, date, gate, versions,
                   shipped_files, caches, branch, workdir, remote, github>>

\* let _ = fs::remove_dir_all(self.dl_dir()): a failure is swallowed.
RemoveDl(p) ==
    /\ pc[p] = "remove_dl"
    /\ dl' \in {EmptyDir, dl}
    /\ Advance(p, "remove_dl", "blog_and_discourse")
    /\ UNCHANGED <<calls, today, downloads, runs, lockHolder, locals, manifests, manifests_smoke,
                   remote, github>>

\* blog_and_discourse, returning at once on every channel but stable,
\* without a GitHub or a Discourse client and without a blog repository.
\* With a scheduled release date: a topic on internals, then a file in
\* the blog repository. Else with a blog PR: the latest pages build is
\* read, the PR merged (a failure of the merge returns Ok), the new build
\* awaited, and a topic posted. Else nothing.
blog_and_discourse(channel, github_client, discourse, blog_repository, blog) ==
    IF \/ channel # "stable"
       \/ "absent" \in {github_client, discourse, blog_repository}
    THEN Nothing
    ELSE CASE blog = "scheduled_release_date" ->
                 Calling(<<"create_topic", "create_file">>)
           [] blog = "blog_pr" ->
                 Then(Calling(<<"latest_github_pages">>),
                      {[contacted |-> <<Failed("merge_pr")>>, ok |-> TRUE]}
                         \cup Calling(<<"merge_pr", "wait_for_github_pages",
                                        "create_topic">>))
           [] OTHER -> Nothing

\* self.blog_and_discourse()?
BlogAndDiscourse(p) ==
    /\ pc[p] = "blog_and_discourse"
    /\ \E g \in IF config[p].channel # "stable" THEN {config[p].github}
                ELSE Setting(p, "github") :
       \E d \in IF config[p].channel # "stable" \/ g = "absent"
                THEN {config[p].discourse} ELSE Setting(p, "discourse") :
       \E b \in IF config[p].channel # "stable" \/ "absent" \in {g, d}
                THEN {config[p].blog_repository}
                ELSE Setting(p, "blog_repository") :
       \E blog \in {"scheduled_release_date", "blog_pr", "none"} :
          /\ config' = [config EXCEPT ![p].github = g, ![p].discourse = d,
                                      ![p].blog_repository = b]
          /\ \E o \in blog_and_discourse(config[p].channel, g, d, b, blog) :
                \* self.current_version.as_ref().expect("has current version")
                IF /\ o.contacted # << >>
                   /\ current_version[p] = {}
                   /\ blog = "scheduled_release_date"
                THEN Panics(p, "blog_and_discourse", << >>)
                ELSE IF /\ o.contacted # << >>
                        /\ current_version[p] = {}
                        /\ o.contacted[1] = "latest_github_pages"
                THEN Panics(p, "blog_and_discourse", <<"latest_github_pages">>)
                ELSE Handled(p, "blog_and_discourse", "tag_release", o)
    /\ UNCHANGED <<calls, today, downloads, runs, lockHolder, date, gate, versions,
                   shipped_files, caches, branch, workdir, remote, github>>

\* tag_release tagging on every channel.
tag_release_any_channel(channel, github_client, rustc_repo, cargo_repo) ==
    IF github_client = "absent" \/ ~rustc_repo THEN Nothing
    ELSE Then(Calling(<<"tag_rustc", "workflow_dispatch">>),
              IF cargo_repo THEN Calling(<<"read_file", "tag_cargo">>)
              ELSE Nothing)

\* tag_release: nothing on every channel but stable, without a GitHub
\* client and without a rustc tag repository; else the rustc tag, the
\* thanks workflow and, with a cargo tag repository, the cargo submodule
\* read at the rustc commit and the cargo tag.
tag_release(channel, github_client, rustc_repo, cargo_repo) ==
    IF channel # "stable" \/ github_client = "absent" \/ ~rustc_repo THEN Nothing
    ELSE Then(Calling(<<"tag_rustc", "workflow_dispatch">>),
              IF cargo_repo THEN Calling(<<"read_file", "tag_cargo">>)
              ELSE Nothing)

\* self.tag_release(&rev, &mut signer)?; Ok(())
TagRelease(p) ==
    /\ pc[p] = "tag_release"
    /\ \E g \in IF config[p].channel # "stable" THEN {config[p].github}
                ELSE Setting(p, "github") :
       \E rustc_repo \in BOOLEAN, cargo_repo \in BOOLEAN :
          /\ config' = [config EXCEPT ![p].github = g]
          /\ \E o \in tag_release(config[p].channel, g, rustc_repo, cargo_repo) :
                \* current_version.clone().expect("has current version") and
                \* current_cargo_version.clone().expect(..) after the thanks
                \* workflow was dispatched
                IF o.contacted # << >> /\ current_version[p] = {}
                THEN Panics(p, "tag_release", << >>)
                ELSE IF Len(o.contacted) > 2 /\ current_cargo_version[p] = {}
                THEN Panics(p, "tag_release", <<"tag_rustc", "workflow_dispatch">>)
                ELSE Handled(p, "tag_release", "exit", o)
    /\ UNCHANGED <<calls, today, downloads, runs, lockHolder, date, gate, versions,
                   shipped_files, caches, branch, workdir, remote, github>>

\* ------------------------------------------------------------ do_branching
\* The parent of the last commit that changed src/version on master.
PrebumpSha == PrebumpAtStart

\* do_branching without its two checks of the versions.
DoBranchingUnchecked(p) ==
    /\ pc[p] = "do_branching"
    /\ \E credentials \in Setting(p, "github"), reads \in BOOLEAN :
          /\ config' = [config EXCEPT ![p].github = credentials]
          /\ IF credentials = "absent"
             THEN Return(p, "ok", "do_branching") /\ UNCHANGED branch
             ELSE IF ~reads
             THEN Return(p, "error", "do_branching") /\ UNCHANGED branch
             ELSE /\ branch' = [branch EXCEPT ![p] =
                                  [beta_sha |-> heads.beta, prebump_sha |-> PrebumpSha]]
                  /\ Advance(p, "do_branching", "update_ref_stable")
    /\ UNCHANGED <<calls, today, downloads, runs, lockHolder, date, gate, versions,
                   shipped_files, caches, workdir, remote, github>>

\* do_branching up to its two checks: without GitHub credentials it
\* returns Ok; the reads may fail; equal stable and beta versions, or equal
\* beta and pre-bump versions, are an error.
DoBranching(p) ==
    /\ pc[p] = "do_branching"
    /\ \E credentials \in Setting(p, "github"), reads \in BOOLEAN :
          /\ config' = [config EXCEPT ![p].github = credentials]
          /\ IF credentials = "absent"
             THEN Return(p, "ok", "do_branching") /\ UNCHANGED branch
             ELSE IF ~reads \/ heads.stable = heads.beta \/ heads.beta = PrebumpSha
             THEN Return(p, "error", "do_branching") /\ UNCHANGED branch
             ELSE /\ branch' = [branch EXCEPT ![p] =
                                  [beta_sha |-> heads.beta, prebump_sha |-> PrebumpSha]]
                  /\ Advance(p, "do_branching", "update_ref_stable")
    /\ UNCHANGED <<calls, today, downloads, runs, lockHolder, date, gate, versions,
                   shipped_files, caches, workdir, remote, github>>

\* The two branches moved by one request.
UpdateRefsTogether(p) ==
    /\ pc[p] = "update_ref_stable"
    /\ \E ok \in BOOLEAN :
          IF ok
          THEN /\ heads' = [stable |-> branch[p].beta_sha,
                            beta |-> branch[p].prebump_sha]
               /\ Advance(p, "update_ref_stable", "update_ref_beta")
          ELSE UNCHANGED heads /\ Return(p, "error", "update_ref_stable")
    /\ UNCHANGED <<calls, today, downloads, runs, lockHolder, locals, workdir, remote, cargo_refs>>

\* token.update_ref("heads/stable", &beta_sha, true)?
UpdateRefStable(p) ==
    /\ pc[p] = "update_ref_stable"
    /\ \E ok \in BOOLEAN :
          IF ok
          THEN /\ heads' = [heads EXCEPT !.stable = branch[p].beta_sha]
               /\ Advance(p, "update_ref_stable", "update_ref_beta")
          ELSE UNCHANGED heads /\ Return(p, "error", "update_ref_stable")
    /\ UNCHANGED <<calls, today, downloads, runs, lockHolder, locals, workdir, remote, cargo_refs>>

\* token.update_ref("heads/beta", &prebump_sha, true)?
UpdateRefBeta(p) ==
    /\ pc[p] = "update_ref_beta"
    /\ \E ok \in BOOLEAN :
          IF ok
          THEN /\ heads' = [heads EXCEPT !.beta = branch[p].prebump_sha]
               /\ Advance(p, "update_ref_beta", "create_ref")
          ELSE UNCHANGED heads /\ Return(p, "error", "update_ref_beta")
    /\ UNCHANGED <<calls, today, downloads, runs, lockHolder, locals, workdir, remote, cargo_refs>>

\* The cargo submodule is read and refs/heads/rust-<new beta> is created
\* in rust-lang/cargo; Ok(()).
CreateRef(p) ==
    /\ pc[p] = "create_ref"
    /\ \E ok \in BOOLEAN :
          /\ cargo_refs' = IF ok THEN cargo_refs \cup {branch[p].prebump_sha}
                           ELSE cargo_refs
          /\ pc' = [pc EXCEPT ![p] = "exit"]
          /\ log' = [log EXCEPT ![p] = IF ok THEN Append(@, "create_ref") ELSE @]
          /\ result' = [result EXCEPT ![p] =
                           [kind |-> IF ok THEN "ok" ELSE "error", at |-> "create_ref"]]
    /\ UNCHANGED <<calls, today, downloads, runs, lockHolder, locals, workdir, remote, heads>>

\* ------------------------------------------------------------------- Next
Next ==
    \/ Tick
    \/ \E p \in Proc :
          \/ Start(p)
          \/ Lock(p)
          \/ Exit(p)
          \/ GetCommitSha(p)
          \/ DownloadTopLevelManifest(p)
          \/ CheckRev(p)
          \/ DatedManifestExists(p)
          \/ DownloadArtifacts(p)
          \/ CurrentVersionSame(p)
          \/ AssertAllComponentsPresent(p)
          \/ RecompressRelease(p)
          \/ SignerNew(p)
          \/ BuildManifestNew(p)
          \/ SmokeTesterNew(p)
          \/ ManifestDiscovery(p)
          \/ PruneUnusedFiles(p)
          \/ RecompressNightly(p)
          \/ ClearChecksumCache(p)
          \/ ManifestReal(p)
          \/ ManifestSmoke(p)
          \/ SignDl(p)
          \/ SignReal(p)
          \/ SignSmoke(p)
          \/ SmokeRemove(p)
          \/ SmokeInstall(p)
          \/ SmokeInit(p)
          \/ SmokeRun(p)
          \/ Merge(p)
          \/ PublishArchive(p)
          \/ PublishDocs(p)
          \/ PublishRelease(p)
          \/ InvalidateReleases(p)
          \/ RemoveDl(p)
          \/ BlogAndDiscourse(p)
          \/ TagRelease(p)
          \/ DoBranching(p)
          \/ UpdateRefStable(p)
          \/ UpdateRefBeta(p)
          \/ CreateRef(p)

Spec == Init /\ [][Next]_vars

\* ------------------------------------------------------ choose_xz_dictsize
\* A u32 is the set of the positions of its one bits, bit 0 the lowest.
Width == 32
U32Max == 0 .. (Width - 1)

\* The u32 of a number below 2^31.
U32(n) == {i \in 0 .. (Width - 2) : (n \div (2 ^ i)) % 2 = 1}

\* x < y: the highest bit in which they differ is a bit of y.
Lt(x, y) == \E i \in y \ x : \A j \in x \ y : j < i
Le(x, y) == x = y \/ Lt(x, y)

\* x << k and x >> k for k < 32: the bits shifted out are dropped.
shl(x, k) == {i + k : i \in {j \in x : j + k < Width}}
shr(x, k) == {i - k : i \in {j \in x : j >= k}}

\* u32::wrapping_shr: the shift amount is taken modulo 32.
wrapping_shr(x, k) == shr(x, k % Width)

\* u32::leading_zeros
leading_zeros(x) ==
    IF x = {} THEN Width
    ELSE Width - 1 - (CHOOSE i \in x : \A j \in x : j <= i)

\* u32::is_power_of_two
is_power_of_two(x) == Cardinality(x) = 1

\* Ord::clamp and std::cmp::min
clamp(x, lo, hi) == IF Lt(x, lo) THEN lo ELSE IF Lt(hi, x) THEN hi ELSE x
min(x, y) == IF Lt(y, x) THEN y ELSE x

MAX_XZ_DICTSIZE == 134217728
MIN_XZ_DICTSIZE == 4096

\* choose_xz_dictsize with the comparison `twinbit_form > sz`.
choose_xz_dictsize_strict(sz) ==
    LET s == clamp(sz, U32(MIN_XZ_DICTSIZE), U32(MAX_XZ_DICTSIZE))
        hi_one == s \cap wrapping_shr(shl(U32(1), 31), leading_zeros(s))
        twinbit_form == hi_one \cup shr(hi_one, 1)
    IN IF is_power_of_two(s) THEN s
       ELSE IF Lt(s, twinbit_form) THEN twinbit_form
       ELSE min(shl(hi_one, 1), U32(MAX_XZ_DICTSIZE))

\* choose_xz_dictsize without the clamp.
choose_xz_dictsize_unclamped(sz) ==
    LET hi_one == sz \cap wrapping_shr(shl(U32(1), 31), leading_zeros(sz))
        twinbit_form == hi_one \cup shr(hi_one, 1)
    IN IF is_power_of_two(sz) THEN sz
       ELSE IF Le(sz, twinbit_form) THEN twinbit_form
       ELSE min(shl(hi_one, 1), U32(MAX_XZ_DICTSIZE))

\* choose_xz_dictsize(sz)
choose_xz_dictsize(sz) ==
    LET s == clamp(sz, U32(MIN_XZ_DICTSIZE), U32(MAX_XZ_DICTSIZE))
        hi_one == s \cap wrapping_shr(shl(U32(1), 31), leading_zeros(s))
        twinbit_form == hi_one \cup shr(hi_one, 1)
    IN IF is_power_of_two(s) THEN s
       ELSE IF Le(s, twinbit_form) THEN twinbit_form
       ELSE min(shl(hi_one, 1), U32(MAX_XZ_DICTSIZE))

\* The shifts of choose_xz_dictsize(sz) stay within 32 bits: no shift
\* amount reaches 32 and no one bit is shifted out at the top.
shifts_in_range(sz) ==
    LET s == clamp(sz, U32(MIN_XZ_DICTSIZE), U32(MAX_XZ_DICTSIZE))
        hi_one == s \cap wrapping_shr(shl(U32(1), 31), leading_zeros(s))
    IN /\ leading_zeros(s) < Width
       /\ is_power_of_two(s) \/ \A i \in hi_one : i + 1 < Width

\* --------------------------------------------- functions called by themselves
\* How many times in a row a function is applied, each time to what the
\* call before returned.
MaxCalls == 2

\* The entries a directory handed to a function may hold: archives, with
\* and without a .gz twin, a .gz without its .xz, sidecars left behind, a
\* file no manifest refers to, a file named asc and a subdirectory.
EntryNames ==
    {<<"a", "tar", "xz">>, <<"a", "tar", "gz">>, <<"b", "tar", "xz">>,
     <<"c", "tar", "gz">>, <<"a", "tar", "xz", "sha256">>,
     <<"a", "tar", "xz", "asc">>, <<"notes", "json">>, <<"asc">>, <<"docs">>}

EntryBytes(n) ==
    CASE n = <<"docs">> -> Bytes("dir", "other", "dir", "R1")
      [] Extension(n) = "xz" -> Bytes("file", "archive", "ci-xz", "R1")
      [] Extension(n) = "gz" -> Bytes("file", "archive", "ci-gz", "R1")
      [] Extension(n) \in {"asc", "sha256"} ->
            Bytes(Extension(n), "archive", "stale", "R1")
      [] OTHER -> Bytes("file", "other", "json", "R1")

Directories == {[n \in S |-> EntryBytes(n)] : S \in SUBSET EntryNames}

\* The sets of names a shipped-files list may hold: names of entries and
\* a name that is no entry.
ShippedSets ==
    SUBSET {<<"a", "tar", "xz">>, <<"a", "tar", "gz">>, <<"z", "tar", "xz">>}

\* The sizes choose_xz_dictsize is called with: 0, u32::MAX and, around
\* each power of two 2^n, 2^n - 1, 2^n, 2^n + 1, 2^n + 2^(n-1) - 1,
\* 2^n + 2^(n-1) and 2^n + 2^(n-1) + 1.
Sizes ==
    {{}, U32Max} \cup UNION {
        {0 .. (n - 1), {n}, {n, 0},
         {n} \cup (0 .. (n - 2)), {n} \cup {i \in {n - 1} : i >= 0},
         {n, 0} \cup {i \in {n - 1} : i >= 0}} : n \in U32Max}

\* Byte streams, and the buffer recompress_file hands to
\* decompress_and_write (4 MiB there), which a second pass finds filled
\* with what the first left in it.
MaxStream == 3
BufLen == 2
Byte == {0, 1}
Streams == UNION {[1 .. n -> Byte] : n \in 0 .. MaxStream}

\* What an encoder (xz2, flate2) that was fed a stream and finished
\* leaves in its file, and what a decoder reads back from it: the
\* formats are lossless.
Encode(format, stream) ==
    [format |-> format, blocks |-> [i \in DOMAIN stream |-> 1 - stream[i]]]
Decode(file) == [i \in DOMAIN file.blocks |-> 1 - file.blocks[i]]

\* Paths handed to Fastly::purge: "/dist/*" and every short string over
\* letters, digits, punctuation and non-ASCII letters and numerals (a
\* char that is not ASCII is written by its name).
MaxPath == 2
Chars == {"d", "7", "/", "*", "e-acute", "superscript-two"}
Paths == {<<"/", "d", "i", "s", "t", "/", "*">>}
            \cup UNION {[1 .. n -> Chars] : n \in 0 .. MaxPath}

CallInputs ==
    {[NoCall EXCEPT !.fn = "sign_directory", !.directory = d] : d \in Directories}
    \cup {[NoCall EXCEPT !.fn = "prune_unused_files", !.directory = d,
                         !.shipped_files = s] :
            d \in {x \in Directories : \A n \in Files(x) : x[n].kind # "dir"},
            s \in ShippedSets}
    \cup {[NoCall EXCEPT !.fn = "recompress", !.directory = d,
                         !.recompress_gz = gz, !.recompress_xz = xz] :
            d \in Directories, gz \in BOOLEAN, xz \in BOOLEAN}
    \cup {[NoCall EXCEPT !.fn = "choose_xz_dictsize", !.sz = sz] : sz \in Sizes}
    \cup {[NoCall EXCEPT !.fn = "decompress_and_write", !.src = Encode("xz", s),
                         !.buf = b, !.destinations = d] :
            s \in Streams, b \in [1 .. BufLen -> Byte],
            d \in SUBSET {"gz", "xz"}}
    \cup {[NoCall EXCEPT !.fn = "path_to_surrogate_key", !.path = p] : p \in Paths}

CallsInit ==
    /\ Constructed
    /\ call \in CallInputs
    /\ returned = NoReturned
    /\ batch = NoBatch
    /\ smoke_test = NoTester

\* What the program holds stays as it is while a function is called by itself.
program == <<today, runs, downloads, lockHolder, pc, locals, result, log, workdir,
             remote, github>>

\* The directory the next call is made on.
Directory ==
    IF returned.directories = << >> THEN call.directory
    ELSE returned.directories[Len(returned.directories)]

\* signer.sign_directory(dir), the Signer as Signer::new made it.
CallSignDirectory ==
    /\ call.fn = "sign_directory"
    /\ Len(returned.directories) < MaxCalls
    /\ returned' = [returned EXCEPT !.directories =
                        Append(@, sign_directory("dl", Directory, EmptyDir))]
    /\ UNCHANGED <<call, batch, smoke_test, program>>

\* self.prune_unused_files(shipped_files)
CallPruneUnusedFiles ==
    /\ call.fn = "prune_unused_files"
    /\ Len(returned.directories) < MaxCalls
    /\ returned' = [returned EXCEPT !.directories =
                        Append(@, prune_unused_files(Directory, call.shipped_files))]
    /\ UNCHANGED <<call, batch, smoke_test, program>>

\* self.recompress(directory)
CallRecompress ==
    /\ call.fn = "recompress"
    /\ Len(returned.directories) < MaxCalls
    /\ returned' = [returned EXCEPT !.directories =
                        Append(@, recompress(Directory, call.recompress_gz,
                                             call.recompress_xz))]
    /\ UNCHANGED <<call, batch, smoke_test, program>>

\* choose_xz_dictsize(sz)
CallChooseXzDictsize ==
    /\ call.fn = "choose_xz_dictsize"
    /\ Len(returned.dictsizes) < MaxCalls
    /\ LET sz == IF returned.dictsizes = << >> THEN call.sz
                 ELSE returned.dictsizes[Len(returned.dictsizes)]
       IN returned' = [returned EXCEPT
                          !.dictsizes = Append(@, choose_xz_dictsize(sz)),
                          !.overflowed = @ \/ ~shifts_in_range(sz)]
    /\ UNCHANGED <<call, batch, smoke_test, program>>

\* write_all(buf) in place of write_all(&buf[..length]).
whole_buffer(buf, length) == buf

\* &buf[..length]
filled(buf, length) == SubSeq(buf, 1, length)

\* src.rewind() and XzDecoder::new(src); the encoders of the
\* destinations have been fed nothing.
Rewind ==
    /\ call.fn = "decompress_and_write"
    /\ returned.status = "none"
    /\ \/ returned' = [returned EXCEPT !.status = "err"]
       \/ returned' = [returned EXCEPT
                          !.status = "loop", !.buf = call.buf,
                          !.fed = [d \in call.destinations |-> << >>]]
    /\ UNCHANGED <<call, batch, smoke_test, program>>

\* One turn of the loop: decompressor.read(buf) fills a prefix of buf
\* with the next bytes of the stream, as many as it likes (none only at
\* the end of the stream), or fails; the turn ends the function on
\* length 0 and else writes buf[..length] to every destination, where a
\* write may fail after the destinations before it were written.
ReadAndWrite ==
    /\ call.fn = "decompress_and_write"
    /\ returned.status = "loop"
    /\ LET stream == Decode(call.src)
           rest == Len(stream) - returned.total_length
       IN \/ returned' = [returned EXCEPT !.status = "err"]
          \/ /\ rest = 0
             /\ returned' = [returned EXCEPT !.status = "ok"]
          \/ \E length \in {n \in 1 .. BufLen : n <= rest},
                upto \in SUBSET call.destinations :
               LET buf == [i \in 1 .. BufLen |->
                             IF i <= length
                             THEN stream[returned.total_length + i]
                             ELSE returned.buf[i]]
               IN /\ \A d \in upto, e \in call.destinations :
                         (e = "gz" /\ d = "xz") => e \in upto
                  /\ returned' = [returned EXCEPT
                        !.buf = buf,
                        !.total_length = @ + length,
                        !.fed = [d \in call.destinations |->
                                   IF d \in upto
                                   THEN @[d] \o filled(buf, length)
                                   ELSE @[d]],
                        !.status = IF upto = call.destinations
                                   THEN "loop" ELSE "err"]
    /\ UNCHANGED <<call, batch, smoke_test, program>>

\* char::is_alphanumeric: Unicode's Alphabetic and its numeric classes.
is_alphanumeric(c) == c \in {"d", "i", "s", "t", "7", "e-acute", "superscript-two"}

\* path.chars().filter(..).collect() keeping what is not alphanumeric.
path_to_surrogate_key_inverted(path) == SelectSeq(path, LAMBDA c : ~is_alphanumeric(c))

\* path_to_surrogate_key(path)
path_to_surrogate_key(path) == SelectSeq(path, is_alphanumeric)

\* path_to_surrogate_key(path), then of what it returned.
CallPathToSurrogateKey ==
    /\ call.fn = "path_to_surrogate_key"
    /\ Len(returned.keys) < MaxCalls
    /\ LET path == IF returned.keys = << >> THEN call.path
                   ELSE returned.keys[Len(returned.keys)]
       IN returned' = [returned EXCEPT
                          !.keys = Append(@, path_to_surrogate_key(path))]
    /\ UNCHANGED <<call, batch, smoke_test, program>>

CallsNext ==
    \/ CallSignDirectory
    \/ CallPruneUnusedFiles
    \/ CallRecompress
    \/ CallChooseXzDictsize
    \/ Rewind
    \/ ReadAndWrite
    \/ CallPathToSurrogateKey

Calls == CallsInit /\ [][CallsNext]_vars

\* ------------------------------ Context::recompress, thread by thread
\* The worker threads of one Context::recompress call and the steps of
\* recompress_file, with every failure the file system can produce.
MaxThreads == 2
MaxFiles == 2

\* The .xz files of the directory and the one .gz CI may have left.
BatchXz ==
    {<<"rustc", "tar", "xz">>, <<"cargo", "tar", "xz">>, <<"rust-std", "tar", "xz">>}
BatchDirectories ==
    {[n \in xzs \cup gzs |->
        IF Extension(n) = "xz" THEN Bytes("file", "archive", "xz", "R1")
        ELSE Bytes("file", "archive", "ci-gz", "R1")] :
       xzs \in {s \in SUBSET BatchXz : s # {} /\ Cardinality(s) <= MaxFiles},
       gzs \in SUBSET {<<"rustc", "tar", "gz">>}}

BatchInputs ==
    {[NoCall EXCEPT !.fn = "recompress", !.directory = d,
                    !.recompress_gz = gz, !.recompress_xz = xz] :
       d \in BatchDirectories, gz \in BOOLEAN, xz \in BOOLEAN}

\* A worker before its first pop.
Spawned == [pc |-> "pop", file |-> << >>, result |-> "running", passes |-> << >>]

\* config.num_threads is any usize the environment names, zero included.
BatchInit ==
    /\ Constructed
    /\ call \in BatchInputs
    /\ returned = NoReturned
    /\ smoke_test = NoTester
    /\ \E num_threads \in 0 .. MaxThreads :
          batch = [NoBatch EXCEPT !.pc = "read_dir", !.disk = call.directory,
                                  !.num_threads = num_threads]

Orders(S) ==
    {s \in [1 .. Cardinality(S) -> S] :
        \A i, j \in DOMAIN s : i # j => s[i] # s[j]}

\* The lengths fs::metadata reports for the files at sort time, 0 where
\* the query fails (unwrap_or(0)).
MaxLength == 1

Lengths(S) == [S -> 0 .. MaxLength]

\* to_recompress.sort_by_cached_key(..): the orders the sort can leave,
\* ascending by length; files of equal length keep the order read_dir
\* listed them in, which is any.
sort_by_cached_key_descending(S, len) ==
    {s \in Orders(S) : \A i, j \in DOMAIN s : i < j => len[s[i]] >= len[s[j]]}

sort_by_cached_key(S, len) ==
    {s \in Orders(S) : \A i, j \in DOMAIN s : i < j => len[s[i]] <= len[s[j]]}

\* A file created or overwritten in a directory.
Put(dir, name, bytes) ==
    [n \in Files(dir) \cup {name} |-> IF n = name THEN bytes ELSE dir[n]]

Workers == DOMAIN batch.tasks
BatchFrame == UNCHANGED <<call, returned, smoke_test, program>>

\* The bytes a compressor leaves behind: a stream cut by a failed write,
\* a whole stream whose end was never written, or a complete one.
Stream(src, enc) == Bytes("file", src.what, enc, src.rev)

\* The worker loop with the file's error recorded but not propagated:
\* the worker goes back to the pop after a failure too.
FileReturnsErrorKept(w, ok, disk, passes) ==
    batch' = [batch EXCEPT
                !.disk = disk,
                !.tasks[w].pc = "pop",
                !.tasks[w].result = IF ok THEN @ ELSE "err",
                !.tasks[w].passes = @ \o passes,
                !.log = Append(@, <<IF ok THEN "ok" ELSE "err",
                                    batch.tasks[w].file>>)]

\* A worker's recompress_file returns: Ok goes back to the pop, Err ends
\* the worker's closure through the `?`.  `passes` are the decompression
\* passes the step made over the input, each the set of compressors fed.
FileReturns(w, ok, disk, passes) ==
    batch' = [batch EXCEPT
                !.disk = disk,
                !.tasks[w].pc = IF ok THEN "pop" ELSE "done",
                !.tasks[w].result = IF ok THEN "running" ELSE "err",
                !.tasks[w].passes = @ \o passes,
                !.log = Append(@, <<IF ok THEN "ok" ELSE "err",
                                    batch.tasks[w].file>>)]

FileStep(w, next, disk, passes) ==
    batch' = [batch EXCEPT !.disk = disk, !.tasks[w].pc = next,
                            !.tasks[w].passes = @ \o passes]

\* The listing of the directory, the removal of the .gz files when
\* recompress_gz is set, and the sort by length (the lengths are an
\* input); after it the num_threads workers are spawned.
ReadDir ==
    /\ batch.pc = "read_dir"
    /\ \/ batch' = [batch EXCEPT !.pc = "returned", !.result = "err"]
       \/ \E len \in Lengths({n \in Files(batch.disk) : Extension(n) = "xz"}) :
          \E order \in sort_by_cached_key(DOMAIN len, len) :
             batch' = [batch EXCEPT
                         !.pc = "join",
                         !.to_recompress = order,
                         !.len = len,
                         !.tasks = [w \in 1 .. batch.num_threads |-> Spawned],
                         !.disk = IF call.recompress_gz
                                  THEN RemoveFiles(@, {n \in Files(@) :
                                                         Extension(n) = "gz"})
                                  ELSE @]
    /\ BatchFrame

Running(w) == batch.pc \in {"join", "exit"} /\ w \in Workers

\* to_recompress.lock().unwrap().pop(): the last file of the queue, or
\* the end of the worker with Ok(()) when the queue is empty.
Pop(w) ==
    /\ Running(w)
    /\ batch.tasks[w].pc = "pop"
    /\ IF batch.to_recompress = << >>
       THEN batch' = [batch EXCEPT !.tasks[w].pc = "done",
                                   !.tasks[w].result = "ok"]
       ELSE LET file == batch.to_recompress[Len(batch.to_recompress)] IN
            batch' = [batch EXCEPT
                        !.to_recompress = SubSeq(@, 1, Len(@) - 1),
                        !.tasks[w].pc = "open",
                        !.tasks[w].file = file,
                        !.tasks[w].passes = << >>,
                        !.log = Append(@, <<"start", file>>)]
    /\ BatchFrame

\* File::open(xz_path)
OpenInput(w) ==
    /\ Running(w)
    /\ batch.tasks[w].pc = "open"
    /\ \/ FileStep(w, "gz", batch.disk, << >>)
       \/ FileReturns(w, FALSE, batch.disk, << >>)
    /\ BatchFrame

\* The gzip block: File::create truncates the .gz, decompress_and_write
\* streams into the encoder, and the encoder is dropped at the end of
\* the block, which finishes the stream and discards a failure.
WriteGz(w) ==
    /\ Running(w)
    /\ batch.tasks[w].pc = "gz"
    /\ LET xz_path == batch.tasks[w].file
           gz_path == with_extension(xz_path, "gz")
           src == batch.disk[xz_path]
           with(bytes) == Put(batch.disk, gz_path, bytes)
           gz == << {"gz"} >>
       IN IF call.recompress_gz \/ gz_path \notin Files(batch.disk)
          THEN \/ FileReturns(w, FALSE, batch.disk, << >>)
               \/ FileReturns(w, FALSE, with(Stream(src, "partial-gz")), gz)
               \/ FileStep(w, "xz", with(Stream(src, "gz")), gz)
               \/ FileStep(w, "xz", with(Stream(src, "unfinished-gz")), gz)
          ELSE FileStep(w, "xz", batch.disk, << >>)
    /\ BatchFrame

\* The passes `in_size` costs: none when the gzip block left its
\* measurements, one with no destination (measure_compressed_file)
\* otherwise.
in_size_measured_again(passes) == << {} >>

in_size(passes) == IF passes = << >> THEN << {} >> ELSE << >>

\* The xz block: the input is measured when the gzip block did not, the
\* sibling .xz_recompressed is created, the stream written, and the
\* encoder and its BufWriter are dropped at the end of the block, which
\* finishes and flushes the stream and discards a failure.
WriteXz(w) ==
    /\ Running(w)
    /\ batch.tasks[w].pc = "xz"
    /\ LET xz_path == batch.tasks[w].file
           xz_recompressed == with_extension(xz_path, "xz_recompressed")
           src == batch.disk[xz_path]
           with(bytes) == Put(batch.disk, xz_recompressed, bytes)
           measured == in_size(batch.tasks[w].passes)
           xz == measured \o << {"xz"} >>
       IN IF call.recompress_xz
          THEN \/ FileReturns(w, FALSE, batch.disk, measured)
               \/ FileReturns(w, FALSE, with(Stream(src, "partial-xz")), xz)
               \/ FileStep(w, "rename", with(Stream(src, "max-xz")), xz)
               \/ FileStep(w, "rename", with(Stream(src, "unfinished-xz")), xz)
          ELSE FileStep(w, "rename", batch.disk, << >>)
    /\ BatchFrame

\* drop(in_file) and fs::rename(&xz_recompressed, xz_path) when
\* recompress_xz is set; then Ok(()).
Rename(w) ==
    /\ Running(w)
    /\ batch.tasks[w].pc = "rename"
    /\ LET xz_path == batch.tasks[w].file
           xz_recompressed == with_extension(xz_path, "xz_recompressed")
       IN IF call.recompress_xz
          THEN \/ FileReturns(w, FALSE, batch.disk, << >>)
               \/ FileReturns(w, TRUE,
                              Put(RemoveFiles(batch.disk, {xz_recompressed}),
                                  xz_path, batch.disk[xz_recompressed]),
                              << >>)
          ELSE FileReturns(w, TRUE, batch.disk, << >>)
    /\ BatchFrame

\* for task in tasks { task.join().expect("no panics")?; }: the main
\* thread waits for the workers in the order it spawned them and leaves
\* the closure at the first Err, or with Ok after the last.
Join ==
    /\ batch.pc = "join"
    /\ LET w == batch.joined + 1 IN
         IF w \notin Workers
         THEN batch' = [batch EXCEPT !.pc = "exit", !.result = "ok"]
         ELSE /\ batch.tasks[w].pc = "done"
              /\ IF batch.tasks[w].result = "err"
                 THEN batch' = [batch EXCEPT !.pc = "exit", !.result = "err"]
                 ELSE batch' = [batch EXCEPT !.joined = w]
    /\ BatchFrame

\* std::thread::scope returns once every thread spawned in it has ended.
ScopeExit ==
    /\ batch.pc = "exit"
    /\ \A w \in Workers : batch.tasks[w].pc = "done"
    /\ batch' = [batch EXCEPT !.pc = "returned"]
    /\ BatchFrame

BatchNext ==
    \/ ReadDir
    \/ \E w \in Workers : Pop(w)
    \/ \E w \in Workers : OpenInput(w)
    \/ \E w \in Workers : WriteGz(w)
    \/ \E w \in Workers : WriteXz(w)
    \/ \E w \in Workers : Rename(w)
    \/ Join
    \/ ScopeExit

Batch == BatchInit /\ [][BatchNext]_vars

\* ------------------------------------------------------ the smoke tester
\* One SmokeTester followed through new and test, with its server thread.
\* The two directories it serves hold any files and sub-directories named
\* from ServedNames; a request is any path of at most MaxUri characters
\* after the leading '/'.
MaxUri == 3

UriChars == {"/", "a", "b"}

Uris ==
    {<<"/">> \o s : s \in UNION {[1 .. n -> UriChars] : n \in 0 .. MaxUri}}

ServedNames == {<<"a">>, <<"b">>}

\* A served directory: for each name what is there, if anything.
Served == [ServedNames -> {"absent", "file", "dir"}]

TesterInit ==
    /\ Constructed
    /\ call = NoCall
    /\ returned = NoReturned
    /\ batch = NoBatch
    /\ \E smoke_manifest_dir, dl_dir \in Served :
          smoke_test = [NoTester EXCEPT !.pc = "new",
                                        !.paths = <<smoke_manifest_dir, dl_dir>>]

SmokeFrame == UNCHANGED <<call, returned, batch, program>>

\* The address the OS assigned to the listener.
LocalAddr == "127.0.0.1:port"

\* The steps of SmokeTester::test before the shutdown, each ending the
\* function through its `?` when it fails.
TestSteps ==
    <<"TempDir::new", "create_dir_all", "toolchain remove",
      "toolchain install", "cargo init", "cargo run">>

\* s.split(sep): the pieces of s between the separators.
RECURSIVE split(_, _)
split(s, sep) ==
    IF \A i \in DOMAIN s : s[i] # sep THEN <<s>>
    ELSE LET i == CHOOSE k \in DOMAIN s :
                     s[k] = sep /\ \A l \in 1 .. k - 1 : s[l] # sep
         IN <<SubSeq(s, 1, i - 1)>> \o split(SubSeq(s, i + 1, Len(s)), sep)

next_back(pieces) == pieces[Len(pieces)]

\* directory.join(file_name).is_file()
is_file(directory, file_name) ==
    file_name \in DOMAIN directory /\ directory[file_name] = "file"

not_found == [status |-> "404 Not Found", body |-> <<"404: Not Found">>]

\* What std::fs::read returns for the file of the i-th directory.
Content(i, file_name) == <<"content", i, file_name>>

server_handler_last_match(uri, paths) ==
    LET file_name == next_back(split(uri, "/"))
        holding == {i \in DOMAIN paths : is_file(paths[i], file_name)}
    IN IF holding = {} THEN not_found
       ELSE [status |-> "200 OK",
             body |-> Content(CHOOSE i \in holding : \A j \in holding : j <= i,
                              file_name)]

\* server_handler: the file named by the last path segment, from the
\* first directory that holds one.
server_handler(uri, paths) ==
    LET file_name == next_back(split(uri, "/"))
        holding == {i \in DOMAIN paths : is_file(paths[i], file_name)}
    IN IF holding = {} THEN not_found
       ELSE [status |-> "200 OK",
             body |-> Content(CHOOSE i \in holding : \A j \in holding : i <= j,
                              file_name)]

\* SmokeTester::new up to the loop: the channel is made and the server
\* thread spawned.
SpawnServer ==
    /\ smoke_test.pc = "new"
    /\ smoke_test' = [smoke_test EXCEPT !.pc = "wait", !.thread = "spawned",
                                        !.shutdown_send = "held"]
    /\ SmokeFrame

\* The server thread up to the publication of its address: the runtime
\* is built and the listener bound, each panicking on failure
\* (Builder::build().unwrap(), Server::bind).
ServerBoots ==
    /\ smoke_test.thread = "spawned"
    /\ \/ smoke_test' = [smoke_test EXCEPT !.thread = "panicked"]
       \/ smoke_test' = [smoke_test EXCEPT !.thread = "serving",
                                           !.port = "bound",
                                           !.server_mtx = {LocalAddr}]
    /\ SmokeFrame

\* One turn of the loop of SmokeTester::new: the address is taken if it
\* is there and the SmokeTester returned, else the thread sleeps a second
\* and looks again.
WaitForServer ==
    /\ smoke_test.pc = "wait"
    /\ IF smoke_test.server_mtx = {}
       THEN smoke_test' = smoke_test
       ELSE smoke_test' = [smoke_test EXCEPT !.pc = "test", !.step = 1,
                                             !.server_addr = smoke_test.server_mtx,
                                             !.server_mtx = {}]
    /\ SmokeFrame

\* A request served: the handler's answer, or no answer when reading the
\* file fails (the handler's `?`).
Serve ==
    /\ smoke_test.thread = "serving"
    /\ \E uri \in Uris :
          LET response == server_handler(uri, smoke_test.paths) IN
             \/ smoke_test' = [smoke_test EXCEPT !.request = uri,
                                                 !.response = <<response>>]
             \/ /\ response # not_found
                /\ smoke_test' = [smoke_test EXCEPT !.request = uri,
                                                    !.response = << >>]
    /\ SmokeFrame

\* The end of the server thread: the graceful shutdown once the signal
\* was sent; a panic when the sender was dropped unsent
\* (shutdown_recv.await.unwrap()) or when the server fails
\* (block_on(server).unwrap()).  The listener goes with the thread.
ServerEnds ==
    /\ smoke_test.thread = "serving"
    /\ \/ /\ smoke_test.shutdown_send = "sent"
          /\ smoke_test' = [smoke_test EXCEPT !.thread = "ended", !.port = "free"]
       \/ /\ smoke_test.shutdown_send = "dropped"
          /\ smoke_test' = [smoke_test EXCEPT !.thread = "panicked", !.port = "free"]
       \/ /\ smoke_test.shutdown_send = "held"
          /\ smoke_test' = [smoke_test EXCEPT !.thread = "panicked", !.port = "free"]
    /\ SmokeFrame

\* SmokeTester::test returns Err where a step fails: `self` is dropped,
\* the sender with it, unsent, and the JoinHandle, unjoined.
TestReturns(ok) ==
    smoke_test' = [smoke_test EXCEPT
                     !.pc = "returned",
                     !.result = IF ok THEN "ok" ELSE "err",
                     !.shutdown_send = IF ok THEN @ ELSE "dropped",
                     !.joined = ok]

\* One step of SmokeTester::test before the shutdown.
TestStep ==
    /\ smoke_test.pc = "test"
    /\ \/ smoke_test' = [smoke_test EXCEPT
                           !.step = IF @ < Len(TestSteps) THEN @ + 1 ELSE @,
                           !.pc = IF smoke_test.step < Len(TestSteps)
                                  THEN "test" ELSE "send"]
       \/ TestReturns(FALSE)
    /\ SmokeFrame

\* self.shutdown_send.send(()).expect(..): the send fails, and the
\* expect panics, when the receiver is gone with its thread.
SendShutdown ==
    /\ smoke_test.pc = "send"
    /\ IF smoke_test.thread = "serving"
       THEN smoke_test' = [smoke_test EXCEPT !.pc = "join",
                                             !.shutdown_send = "sent"]
       ELSE smoke_test' = [smoke_test EXCEPT !.pc = "panicked"]
    /\ SmokeFrame

\* self.runtime.join().unwrap().shutdown_background(); Ok(())
JoinServer ==
    /\ smoke_test.pc = "join"
    /\ smoke_test.thread \in {"ended", "panicked"}
    /\ IF smoke_test.thread = "ended"
       THEN TestReturns(TRUE)
       ELSE smoke_test' = [smoke_test EXCEPT !.pc = "panicked"]
    /\ SmokeFrame

SmokeNext ==
    \/ SpawnServer
    \/ ServerBoots
    \/ WaitForServer
    \/ Serve
    \/ ServerEnds
    \/ TestStep
    \/ SendShutdown
    \/ JoinServer

Smoke == TesterInit /\ [][SmokeNext]_vars

\* The same with every thread scheduled as long as it can take a step.
SmokeLive == Smoke /\ WF_vars(SmokeNext)

\* ------------------------------------------------------------- properties
\* Step `step` is among the steps invocation p has completed.
InLog(p, step) == \E i \in DOMAIN log[p] : log[p][i] = step

\* Step `step` was run by p: it completed, or it ended the run.
Ran(p, step) == InLog(p, step) \/ (pc[p] = "exit" /\ result[p].at = step)

\* p completed step a and, later, step b.
Before(p, a, b) ==
    \E i, j \in DOMAIN log[p] : i < j /\ log[p][i] = a /\ log[p][j] = b

\* p is inside do_release or do_branching.
Executing(p) == pc[p] \notin {"idle", "lock", "exit"}

Skips == {"skip-rev", "skip-dated", "skip-version"}
Aborts == {"error", "panic"}
PublishSteps == {"publish_archive", "publish_docs", "publish_release"}
SmokeSteps == <<"smoke_remove", "smoke_install", "smoke_init", "smoke_run">>

\* The steps of do_release up to the first short-circuit.
GatePrefix == <<"lock", "get_commit_sha", "download_top_level_manifest">>

\* The positions of do_release up to and including the version probe.
GatePositions ==
    {"get_commit_sha", "download_top_level_manifest", "check_rev",
     "dated_manifest_exists", "download_artifacts", "current_version_same"}

\* p is in do_release past the version probe, or its run ended there.
PastProbe(p) ==
    /\ InLog(p, "check_rev")
    /\ \/ Executing(p) /\ pc[p] \notin GatePositions
       \/ pc[p] = "exit" /\ result[p].at \notin GatePositions

\* The stages that come before publication on a channel.
StagesBeforePublish(channel) ==
    {"download_artifacts", "assert_all_components_present",
     IF channel = "nightly" THEN "recompress_nightly" ELSE "recompress_release",
     "manifest_discovery", "manifest_real", "manifest_smoke",
     "sign_dl", "sign_real", "sign_smoke",
     "smoke_remove", "smoke_install", "smoke_init", "smoke_run"}

\* The rustc archive of p's revision reports a version with a channel
\* marker that the previous version lacks.
MarkerFlipped(p) ==
    /\ "rustc" \in ArtifactComponents(rev[p])
    /\ \E marker \in {S_nightly, S_beta} :
          /\ Contains(VersionFile(rev[p], "rustc"), marker)
          /\ ~Contains(previous_version[p], marker)

\* C1: an invocation is inside do_release or do_branching only while it
\* holds the lock, so no two invocations are inside at once; an invocation
\* whose lock() call found the lock held has ended with an error at that
\* call, without the lock and without having completed any step.
C1_LockExcludesOverlap ==
    /\ \A p \in Proc : Executing(p) => lockHolder = p
    /\ \A p, q \in Proc : p # q => ~(Executing(p) /\ Executing(q))
    /\ \A p \in Proc :
          (pc[p] = "exit" /\ result[p].at = "lock")
             => /\ result[p].kind = "error"
                /\ log[p] = << >>
                /\ lockHolder # p

\* An invocation was refused the lock while another was publishing.
C1_Witness ==
    \E p, q \in Proc :
        /\ p # q
        /\ pc[p] = "exit" /\ result[p] = [kind |-> "error", at |-> "lock"]
        /\ pc[q] = "publish_release"

\* C2: every step that changes the publish bucket is a publish step of an
\* invocation that has completed every earlier stage of its channel; a
\* stage that fails ends the run with an error or a panic, leaves the
\* bucket as it was and is followed by no publish step; no step is run
\* twice in one run.
C2_PublishOnlyAfterEveryStage ==
    [][ /\ remote' # remote =>
             \E p \in Proc :
                 /\ pc[p] \in PublishSteps
                 /\ pc'[p] # pc[p]
                 /\ \A s \in StagesBeforePublish(config[p].channel) : InLog(p, s)
        /\ \A p \in Proc :
             (pc[p] \in StagesBeforePublish(config[p].channel)
                 /\ pc'[p] # pc[p] /\ log'[p] = log[p])
                => /\ pc'[p] = "exit"
                   /\ result'[p].kind \in Aborts
                   /\ result'[p].at = pc[p]
                   /\ remote' = remote
                   /\ \A s \in PublishSteps : ~InLog(p, s)
        /\ \A p \in Proc :
             \A i, j \in DOMAIN log'[p] : log'[p][i] = log'[p][j] => i = j
      ]_vars

\* A run wrote the archive, the docs and the release to the bucket.
C2_Witness ==
    \E p \in Proc :
        /\ InLog(p, "publish_release")
        /\ bucket # InitialBucket
        /\ docs # {}

\* C3: once the first short-circuit has been evaluated with the bypass
\* flag unset and a previous version that contains the first 7 characters
\* of the revision, the run has returned Ok as a skip there, having
\* completed only the lock and the two lookups.
C3_RevisionUnchangedSkips ==
    \A p \in Proc :
        ( /\ Ran(p, "check_rev")
          /\ ~config[p].bypass_startup_checks
          /\ Contains(previous_version[p], SubSeq(Sha(rev[p]), 1, 7)) )
        => /\ pc[p] = "exit"
           /\ result[p] = [kind |-> "skip-rev", at |-> "check_rev"]
           /\ log[p] = GatePrefix

\* A run skipped on a revision that an earlier run of the behaviour
\* released.
C3_Witness ==
    \E p \in Proc :
        /\ result[p].kind = "skip-rev"
        /\ previous_version[p] \notin
              {V_1_61_0_abcdef1, V_1_62_0_beta_1, V_1_63_0_nightly}

C5_VersionUnchangedSkip ==
    \A p \in Proc :
        /\ result[p].kind = "skip-version" => Ran(p, "current_version_same")
        /\ Ran(p, "current_version_same") =>
             /\ result[p].kind = "skip-version" <=>
                   /\ config[p].channel # "nightly"
                   /\ ~config[p].bypass_startup_checks
                   /\ ~(result[p].at = "current_version_same"
                          /\ result[p].kind \in Aborts)
                   /\ FirstToken(VersionFile(rev[p], "rustc"))
                         = FirstToken(previous_version[p])
             /\ result[p].kind = "skip-version" =>
                   /\ pc[p] = "exit"
                   /\ log[p] = GatePrefix \o
                        <<"check_rev", "dated_manifest_exists", "download_artifacts">>

\* A run skipped because the version had not changed though the revision
\* had.
C5_Witness ==
    \E p \in Proc :
        /\ result[p] = [kind |-> "skip-version", at |-> "current_version_same"]
        /\ ~Contains(previous_version[p], SubSeq(Sha(rev[p]), 1, 7))

\* C6 as stated: whenever the archive's version has a channel marker the
\* previous version lacks, on any channel and with or without the bypass
\* flag, the run returns no skip and does not get past the version probe.
C6_AnyChannelAborts ==
    \A p \in Proc :
        (InLog(p, "download_top_level_manifest") /\ MarkerFlipped(p))
        => /\ result[p].kind \notin Skips
           /\ ~PastProbe(p)

\* C6, amended: on beta and stable, once the version probe has been run on
\* an archive whose version has a channel marker the previous version
\* lacks, the run has ended there with a panic (with an error when no
\* cargo version could be loaded), with or without the bypass flag.
C6_BetaStableAbort ==
    \A p \in Proc :
        ( /\ Ran(p, "current_version_same")
          /\ config[p].channel \in {"beta", "stable"}
          /\ MarkerFlipped(p) )
        => /\ pc[p] = "exit"
           /\ result[p].at = "current_version_same"
           /\ result[p].kind =
                 IF "cargo" \in ArtifactComponents(rev[p]) THEN "panic" ELSE "error"

\* A run with the bypass flag set panicked on a flipped marker.
C6_Witness ==
    \E p \in Proc :
        /\ result[p] = [kind |-> "panic", at |-> "current_version_same"]
        /\ config[p].bypass_startup_checks
        /\ MarkerFlipped(p)

\* C7: a run that evaluated the first short-circuit with the bypass flag
\* set has not ended with a skip; when it is past the version probe, its
\* steps after the first short-circuit began with download_artifacts and
\* the version probe, and on beta and stable a completed probe has
\* recorded the rustc and cargo versions of the archives.
C7_BypassStillProbes ==
    \A p \in Proc :
        (Ran(p, "check_rev") /\ config[p].bypass_startup_checks)
        => /\ result[p].kind \notin Skips
           /\ PastProbe(p) =>
                 /\ Len(log[p]) >= 6
                 /\ SubSeq(log[p], 1, 6) = GatePrefix \o
                       <<"check_rev", "download_artifacts", "current_version_same">>
           /\ (InLog(p, "current_version_same")
                  /\ config[p].channel \in {"beta", "stable"})
                 => /\ current_version[p] =
                          {FirstToken(VersionFile(rev[p], "rustc"))}
                    /\ current_cargo_version[p] =
                          {FirstToken(VersionFile(rev[p], "cargo"))}

\* A bypassing run went on though the probe found the version unchanged.
C7_Witness ==
    \E p \in Proc :
        /\ config[p].bypass_startup_checks
        /\ config[p].channel = "stable"
        /\ InLog(p, "assert_all_components_present")
        /\ current_version[p] = {FirstToken(previous_version[p])}

\* The scenario of C8: previous version "1.61.0 (abcdef1 2022-01-01)",
\* revision abcdef1234..., a rustc archive reporting "1.61.0", the bypass
\* flag unset, a channel other than nightly.
C8_Scenario(p) ==
    /\ Ran(p, "check_rev")
    /\ config[p].channel # "nightly"
    /\ ~config[p].bypass_startup_checks
    /\ previous_version[p] = V_1_61_0_abcdef1
    /\ Sha(rev[p]) = <<"a","b","c","d","e","f","1","2","3","4">>
    /\ VersionFile(rev[p], "rustc") = V_1_61_0

\* C8 as stated: in the scenario, a run that skips does so at the version
\* probe, after the download.
C8_SkipsAtVersionCheck ==
    \A p \in Proc :
        (C8_Scenario(p) /\ result[p].kind \in Skips)
        => /\ result[p] = [kind |-> "skip-version", at |-> "current_version_same"]
           /\ InLog(p, "download_artifacts")

\* C8, amended: in the scenario the run has returned at the first
\* short-circuit (the previous version contains abcdef1), before any
\* download and before the version probe.
C8_SkipsAtRevisionCheck ==
    \A p \in Proc :
        C8_Scenario(p)
        => /\ pc[p] = "exit"
           /\ result[p] = [kind |-> "skip-rev", at |-> "check_rev"]
           /\ log[p] = GatePrefix
           /\ current_version[p] = {}

\* The scenario happened and the run skipped.
C8_Witness ==
    \E p \in Proc : C8_Scenario(p) /\ result[p].kind \in Skips

\* C9: an invocation that is at a publish step, or has run one, completed
\* the four smoke test commands, in their order, before it, whatever the
\* channel and the bypass flag.
C9_SmokeTestBeforePublish ==
    \A p \in Proc :
        (pc[p] \in PublishSteps \/ \E s \in PublishSteps : Ran(p, s))
        => /\ \A i \in 1..3 : Before(p, SmokeSteps[i], SmokeSteps[i + 1])
           /\ \A s \in PublishSteps :
                 InLog(p, s) => Before(p, SmokeSteps[4], s)

\* A nightly run with the bypass flag set published.
C9_Witness ==
    \E p \in Proc :
        /\ config[p].bypass_startup_checks
        /\ config[p].channel = "nightly"
        /\ InLog(p, "publish_archive")
        /\ InLog(p, "publish_release")

\* C10: no file written by the smoke test manifest pass, and no sidecar of
\* one, is in the bucket or in dl; the real manifest directory and the
\* bucket hold manifests of the real pass only.
C10_SmokeManifestsStayLocal ==
    /\ \A k \in DOMAIN bucket : bucket[k].enc # "smoke"
    /\ \A n \in Files(dl) : dl[n].enc # "smoke"
    /\ \A n \in Files(manifests) : manifests[n].enc # "smoke"
    /\ \A k \in DOMAIN bucket :
          bucket[k].what = "manifest" => bucket[k].enc = "upload"

\* A run published its real manifest while the smoke test manifests were
\* still in their directory.
C10_Witness ==
    \E p \in Proc :
        /\ InLog(p, "publish_release")
        /\ \E n \in Files(manifests_smoke) : manifests_smoke[n].enc = "smoke"
        /\ \E k \in DOMAIN bucket :
              /\ k[1] = TopLevel
              /\ bucket[k].what = "manifest"
              /\ bucket[k].rev = rev[p]

\* ------------------------------------------------------------------- C11
\* p has started step `step`: it is at it, or it ran it.
Started(p, step) == pc[p] = step \/ Ran(p, step)

\* p has completed a Context::recompress of dl.
RecompressDone(p) == InLog(p, "recompress_release") \/ InLog(p, "recompress_nightly")

\* C11 as stated: in every run, on every channel, recompression of dl has
\* completed before the first build-manifest run (the discovery run)
\* starts.  It fails on nightly, where the discovery run comes first.
C11_RecompressBeforeFirstManifest ==
    \A p \in Proc : Started(p, "manifest_discovery") => RecompressDone(p)

\* C11, amended: on beta and stable recompression of dl has completed before
\* the first build-manifest run starts; on nightly the discovery run
\* precedes recompression, and on every channel recompression has completed
\* before the build-manifest runs of the real and the smoke manifests start.
C11_RecompressBeforeManifests ==
    \A p \in Proc :
        /\ Started(p, "manifest_discovery") /\ config[p].channel # "nightly"
              => InLog(p, "recompress_release")
        /\ Started(p, "manifest_discovery") /\ config[p].channel = "nightly"
              => ~RecompressDone(p) \/ Before(p, "manifest_discovery", "recompress_nightly")
        /\ Started(p, "manifest_real") \/ Started(p, "manifest_smoke")
              => RecompressDone(p)

\* A nightly run is about to generate the real manifests, its discovery run
\* done before its recompression.
C11_Witness ==
    \E p \in Proc :
        /\ config[p].channel = "nightly"
        /\ pc[p] = "manifest_real"
        /\ Before(p, "manifest_discovery", "recompress_nightly")

\* ------------------------------------------------------------------- C12
\* Every entry of the cache is for a file of dl and is the digest of the
\* bytes the file has now.
Current(cache) ==
    \A k \in DOMAIN cache :
        /\ k[1] = "dl" /\ Tail(k) \in Files(dl)
        /\ cache[k] = Sha256(dl[Tail(k)])

ManifestRuns == {"manifest_discovery", "manifest_real", "manifest_smoke"}

\* Between the start of the real manifest run, whose checksum cache goes to
\* the Signer, and the first sign_directory call no step changes dl.
UnmodifiedUntilSigned ==
    (\E p \in Proc : pc[p] \in {"manifest_real", "manifest_smoke"}) => dl' = dl

\* C12: a recompression that follows a build-manifest run is followed by a
\* checksum-cache clear before the next build-manifest run, so each
\* build-manifest run starts with a cache file that has no stale entry; no
\* file of dl changes between the real manifest run and sign_directory; and
\* at each sign_directory call every entry of the cache the Signer holds
\* (or is about to be handed) is the digest of the path's current bytes.
C12_CacheEntriesCurrent ==
    /\ [](\A p \in Proc :
            /\ pc[p] \in ManifestRuns => Current(checksum_cache_file[p])
            /\ pc[p] = "manifest_real" /\ InLog(p, "recompress_nightly")
                  => Before(p, "recompress_nightly", "clear_checksum_cache")
            /\ pc[p] \in {"manifest_smoke", "sign_dl"} => Current(checksum_cache[p])
            /\ pc[p] \in {"sign_real", "sign_smoke"}
                  => Current(sha256_checksum_cache[p]))
    /\ [][UnmodifiedUntilSigned]_vars

\* A nightly run has signed dl with a cache that holds the digest of an
\* archive the nightly recompression re-encoded.
C12_Witness ==
    \E p \in Proc :
        /\ config[p].channel = "nightly"
        /\ pc[p] = "sign_real"
        /\ \E n \in Files(dl) :
              /\ dl[n].enc = "max-xz"
              /\ canonicalize("dl", n) \in DOMAIN sha256_checksum_cache[p]

\* ------------------------------------------------------------------- C13
\* Every file of dir that sign_directory signs has a .sha256 file holding
\* the SHA-256 digest of the bytes the file has now.
DigestsMatch(dir) ==
    \A f \in Files(dir) :
        ~should_exclude_path(f) =>
            /\ add_suffix(f, "sha256") \in Files(dir)
            /\ dir[add_suffix(f, "sha256")] = Sha256(dir[f])

\* C13: once sign_directory has returned success on a directory, the digest
\* in f.sha256 is the SHA-256 of f's current bytes for every signed file f,
\* whether computed or taken from the checksum cache; in particular for
\* every file of dl when publish_archive starts.
C13_DigestMatchesBytes ==
    \A p \in Proc :
        /\ InLog(p, "sign_dl") => DigestsMatch(dl)
        /\ InLog(p, "sign_real") /\ ~InLog(p, "merge") => DigestsMatch(manifests)
        /\ InLog(p, "sign_smoke") => DigestsMatch(manifests_smoke)
        /\ pc[p] = "publish_archive" => DigestsMatch(dl) /\ Files(dl) # {}

\* publish_archive starts in a run whose Signer took from the cache the
\* digest of an archive the nightly recompression had re-encoded.
C13_Witness ==
    \E p \in Proc :
        /\ pc[p] = "publish_archive"
        /\ \E f \in Files(dl) :
              /\ dl[f].enc = "max-xz"
              /\ canonicalize("dl", f) \in DOMAIN sha256_checksum_cache[p]
              /\ InLog(p, "recompress_nightly")

\* ------------------------------------------------------------------- C14
\* The file a sidecar belongs to.
SignedFile(name) == SubSeq(name, 1, Len(name) - 1)

\* Every file of dir has its two sidecars and every sidecar of dir was
\* generated from the bytes its file has now.
SidecarsPaired(dir) ==
    \A n \in Files(dir) :
        IF IsSidecar(n)
        THEN /\ SignedFile(n) \in Files(dir)
             /\ LET f == dir[SignedFile(n)]
                IN dir[n] = Bytes(Extension(n), f.what, f.enc, f.rev)
        ELSE /\ add_suffix(n, "asc") \in Files(dir)
             /\ add_suffix(n, "sha256") \in Files(dir)

\* C14: no .asc or .sha256 file that came with the download is published:
\* from the end of download_artifacts to sign_directory dl holds no sidecar
\* at all, no object of the bucket is a downloaded sidecar, and while dl is
\* being published each file of dl has both sidecars, generated from the
\* bytes the file has now.
C14_NoDownloadedSidecarPublished ==
    /\ \A k \in DOMAIN bucket : bucket[k].enc # "stale"
    /\ \A p \in Proc :
          /\ InLog(p, "download_artifacts") /\ ~InLog(p, "sign_dl")
                => \A n \in Files(dl) : ~IsSidecar(n)
          /\ pc[p] \in PublishSteps => SidecarsPaired(dl)

\* A run whose download brought sidecars along has published its archive.
C14_Witness ==
    \E p \in Proc :
        /\ rev[p] # NoRev /\ CiHasSidecars(rev[p])
        /\ InLog(p, "publish_archive")
        /\ <<date[p], add_suffix(ArchiveName("rustc", "xz"), "sha256")>> \in DOMAIN bucket

\* ------------------------------------------------------------------- C15
\* The directory the k-th call of the function was made on.
CalledOn(k) == IF k = 1 THEN call.directory ELSE returned.directories[k - 1]

\* The regular files of d whose extension is neither asc nor sha256.
Signable(d) ==
    {f \in Files(d) : d[f].kind # "dir" /\ Extension(f) \notin {"asc", "sha256"}}

\* C15: sign_directory writes f.sha256 and f.asc, from the bytes of f, for
\* every regular file f of the directory whose extension is neither asc nor
\* sha256; every other entry it leaves is an entry it found, unchanged;
\* and a second run on the directory leaves the set of names as it is.
C15_SignsNoSidecar ==
    call.fn = "sign_directory" =>
        \A k \in 1 .. Len(returned.directories) :
            LET d == CalledOn(k)
                r == returned.directories[k]
                written == {add_suffix(f, s) : f \in Signable(d), s \in {"sha256", "asc"}}
            IN /\ \A f \in Signable(d) : \A s \in {"sha256", "asc"} :
                     /\ add_suffix(f, s) \in Files(r)
                     /\ r[add_suffix(f, s)] = Bytes(s, d[f].what, d[f].enc, d[f].rev)
               /\ \A n \in Files(r) \ written : n \in Files(d) /\ r[n] = d[n]
               /\ Files(d) \subseteq Files(r)
               /\ k >= 2 => Files(r) = Files(d)

\* sign_directory has run twice on a directory that held an archive, a
\* sidecar of it left behind, a file named asc and a subdirectory.
C15_Witness ==
    /\ call.fn = "sign_directory"
    /\ Len(returned.directories) = 2
    /\ {<<"a", "tar", "xz">>, <<"a", "tar", "xz", "asc">>, <<"asc">>, <<"docs">>}
          \subseteq Files(call.directory)
    /\ <<"asc", "asc">> \in Files(returned.directories[1])

\* ------------------------------------------------------------------- C16
\* C16: prune_unused_files removes every entry of the directory whose name
\* is not in shipped_files and leaves every entry whose name is in the set
\* in place with the bytes it had.
C16_PruneKeepsShipped ==
    call.fn = "prune_unused_files" =>
        \A k \in 1 .. Len(returned.directories) :
            LET d == CalledOn(k)
                r == returned.directories[k]
            IN /\ Files(r) = {n \in Files(d) : n \in call.shipped_files}
               /\ \A n \in Files(r) : r[n] = d[n]

\* A pruning removed one entry and kept another.
C16_Witness ==
    /\ call.fn = "prune_unused_files"
    /\ Len(returned.directories) >= 1
    /\ Files(call.directory) \ Files(returned.directories[1]) # {}
    /\ Files(returned.directories[1]) # {}
    /\ call.shipped_files \ Files(call.directory) # {}

\* ------------------------------------------------------------------- C17
\* p takes the pruning step after a discovery run whose tool wrote no
\* shipped-files list.
PrunesWithoutList(p) ==
    /\ pc[p] = "prune_unused_files"
    /\ pc'[p] # "prune_unused_files"
    /\ ~ToolReportsShippedFiles(ToolRev(dl))

\* C17: when the discovery run's tool wrote no shipped-files list,
\* shipped_files is None, the pruning step removes no file of dl and the
\* run goes on to the next step of the pipeline.
C17_NoListNoPruning ==
    [][\A p \in Proc :
          PrunesWithoutList(p) =>
              /\ shipped_files[p] = {}
              /\ dl' = dl
              /\ pc'[p] \in {"recompress_nightly", "clear_checksum_cache"}]_vars

\* A run whose tool wrote no list is past the pruning step with the file
\* no manifest refers to still in dl.
C17_Witness ==
    \E p \in Proc :
        /\ InLog(p, "prune_unused_files")
        /\ pc[p] \in {"recompress_nightly", "clear_checksum_cache"}
        /\ shipped_files[p] = {}
        /\ ~ToolReportsShippedFiles(ToolRev(dl))
        /\ UnshippedName \in Files(dl)

\* ------------------------------------------------------------------- C18
\* The u32 values of the form 2^n or 2^n + 2^(n-1).
DictsizeForms == {{n} : n \in U32Max} \cup {{n, n - 1} : n \in 1 .. (Width - 1)}

\* The size the k-th call of choose_xz_dictsize was made with.
CalledWith(k) == IF k = 1 THEN call.sz ELSE returned.dictsizes[k - 1]

\* C18: for every 32-bit sz, 0 and the sizes above the maximum included,
\* choose_xz_dictsize(sz) has the form 2^n or 2^n + 2^(n-1) and lies in
\* [4096, MAX_XZ_DICTSIZE], and no shift of the computation leaves 32 bits.
C18_DictsizeFormAndRange ==
    call.fn = "choose_xz_dictsize" =>
        /\ ~returned.overflowed
        /\ \A k \in 1 .. Len(returned.dictsizes) :
              LET d == returned.dictsizes[k]
              IN /\ d \in DictsizeForms
                 /\ Le(U32(MIN_XZ_DICTSIZE), d)
                 /\ Le(d, U32(MAX_XZ_DICTSIZE))

\* choose_xz_dictsize(u32::MAX) returned MAX_XZ_DICTSIZE.
C18_Witness ==
    /\ call.fn = "choose_xz_dictsize"
    /\ call.sz = U32Max
    /\ Len(returned.dictsizes) >= 1
    /\ returned.dictsizes[1] = U32(MAX_XZ_DICTSIZE)

\* ------------------------------------------------------------------- C19
\* std::cmp::max
max(x, y) == IF Lt(x, y) THEN y ELSE x

\* C19: for every sz not above MAX_XZ_DICTSIZE, choose_xz_dictsize(sz) is
\* the smallest d of the form 2^n or 2^n + 2^(n-1) with d >= max(sz, 4096);
\* so d >= sz, and the function applied to d returns d.
C19_SmallestFormAtLeastSz ==
    call.fn = "choose_xz_dictsize" /\ Le(call.sz, U32(MAX_XZ_DICTSIZE)) =>
        \A k \in 1 .. Len(returned.dictsizes) :
            LET sz == CalledWith(k)
                d == returned.dictsizes[k]
                least == max(sz, U32(MIN_XZ_DICTSIZE))
            IN /\ d \in DictsizeForms
               /\ Le(least, d)
               /\ \A c \in DictsizeForms : Le(least, c) => Le(d, c)
               /\ Le(sz, d)
               /\ k >= 2 => d = sz

\* choose_xz_dictsize(2^13 + 1) returned 2^13 + 2^12, and so did
\* choose_xz_dictsize of that.
C19_Witness ==
    /\ call.fn = "choose_xz_dictsize"
    /\ call.sz = {13, 0}
    /\ returned.dictsizes = <<{13, 12}, {13, 12}>>

\* ------------------------------------------------------------------- C20
\* The .xz entries of a directory.
XzInputs(d) == {x \in Files(d) : Extension(x) = "xz"}

\* The bytes recompress_file writes to the .gz of the input x of d.
GzOf(d, x) == Bytes("file", d[x].what, "gz", d[x].rev)

Returned(outcome, x) == \E i \in DOMAIN batch.log : batch.log[i] = <<outcome, x>>

\* C21: during recompress_file the original .xz keeps its original bytes
\* up to the final rename: the re-encoded stream goes only to the sibling
\* .xz_recompressed, the rename over the original happens only after the
\* whole stream was written and finalized successfully, and on every
\* failure exit the original is unchanged.
C21_OriginalKeptUntilFinalRename ==
    \A x \in XzInputs(call.directory) :
        /\ x \in Files(batch.disk)
        /\ \/ batch.disk[x] = call.directory[x]
           \/ /\ Returned("ok", x)
              /\ batch.disk[x] = Stream(call.directory[x], "max-xz")
        /\ Returned("err", x) => batch.disk[x] = call.directory[x]

\* ---------------------------------------------------------------- C22
\* C22: Context::recompress returns an error whenever some file's
\* recompress_file failed, returns success only if every .xz file found
\* in the directory was recompressed successfully, and returns only
\* after every worker thread has ended.
C22_ErrorIffSomeFileFailed ==
    batch.pc = "returned" =>
        /\ (\E x \in XzInputs(call.directory) : Returned("err", x))
              => batch.result = "err"
        /\ batch.result = "ok"
              => \A x \in XzInputs(call.directory) : Returned("ok", x)
        /\ \A w \in Workers : batch.tasks[w].pc = "done"

\* ---------------------------------------------------------------- C30
\* Some file was started after some file's recompression had failed.
StartedAfterFailure ==
    \E i, j \in DOMAIN batch.log :
        i < j /\ batch.log[i][1] = "err" /\ batch.log[j][1] = "start"

\* C30 as stated: after some file's recompression has failed, no file
\* still waiting in the pending queue is started by any worker.
C30_NoStartAfterFailure == ~StartedAfterFailure

\* C30: after some file's recompression has failed, the worker it failed
\* in starts no further file, while the surviving workers keep taking
\* files: when the call returns, files are left in the pending queue
\* only if every worker has failed.
C30_OnlyFailedWorkerStops ==
    /\ [](batch.pc = "returned" /\ batch.to_recompress # << >>
             => \A w \in Workers : batch.tasks[w].result = "err")
    /\ [][\A w \in Workers :
             batch.tasks[w].result = "err"
                => /\ w \in DOMAIN batch'.tasks
                   /\ batch'.tasks[w] = batch.tasks[w]]_vars

C30_Witness ==
    /\ batch.pc = "returned"
    /\ batch.result = "err"
    /\ StartedAfterFailure
    /\ batch.to_recompress = << >>

AlphanumericAt(s) == {i \in DOMAIN s : is_alphanumeric(s[i])}

\* C28: path_to_surrogate_key returns exactly the alphanumeric characters
\* of its input in their original order and drops every other character
\* ("/dist/*" gives "dist"), and applied to its own result it returns
\* that result unchanged.
C28_KeyIsTheAlphanumerics ==
    call.fn = "path_to_surrogate_key" =>
        \A k \in DOMAIN returned.keys :
            LET path == IF k = 1 THEN call.path ELSE returned.keys[k - 1]
                key == returned.keys[k]
                at == AlphanumericAt(path)
            IN /\ Len(key) = Cardinality(at)
               /\ \A j \in DOMAIN key :
                     \E i \in at : /\ Cardinality({q \in at : q <= i}) = j
                                   /\ key[j] = path[i]
               /\ (k = 1 /\ path = <<"/", "d", "i", "s", "t", "/", "*">>)
                     => key = <<"d", "i", "s", "t">>
               /\ k >= 2 => key = path

C28_Witness ==
    /\ call.fn = "path_to_surrogate_key"
    /\ call.path = <<"/", "d", "i", "s", "t", "/", "*">>
    /\ Len(returned.keys) >= 2
    /\ returned.keys[2] = <<"d", "i", "s", "t">>

\* ---------------------------------------------------------------- C24
\* The side effects that follow the publication.
SideEffects == {"invalidate_releases", "blog_and_discourse", "tag_release"}

\* C24: once publish_release has succeeded, a failure of a later side
\* effect (CloudFront or Fastly invalidation, blog or forum posting,
\* tagging) does not make the run fail and does not keep the remaining
\* side effects from being attempted.
C24_SideEffectFailureNotFatal ==
    \A p \in Proc :
        (InLog(p, "publish_release") /\ pc[p] = "exit")
            => /\ result[p].kind = "ok"
               /\ \A s \in SideEffects : Ran(p, s)

\* ---------------------------------------------------------------- C25
\* The invocation called this operation of a remote service.
Contacted(p, op) == InLog(p, op) \/ InLog(p, Failed(op))

\* The run ended with an error in this handler.
FailedIn(p, step) ==
    pc[p] = "exit" /\ result[p] = [kind |-> "error", at |-> step]

GithubCalls ==
    {"create_file", "latest_github_pages", "merge_pr", "wait_for_github_pages",
     "tag_rustc", "workflow_dispatch", "read_file", "tag_cargo"}
BlogCalls ==
    {"create_topic", "create_file", "latest_github_pages", "merge_pr",
     "wait_for_github_pages"}

\* C25: a side effect whose credentials are absent (the GitHub client,
\* the Discourse client, the blog repository, the Fastly client) is
\* skipped without a call to the remote service, and the skip is no
\* failure of the run; do_branching without a GitHub client returns
\* success without touching a ref.
C25_AbsentCredentialsSkip ==
    \A p \in Proc :
        /\ config[p].github = "absent" =>
              /\ \A op \in GithubCalls : ~Contacted(p, op)
              /\ ~FailedIn(p, "blog_and_discourse") /\ ~FailedIn(p, "tag_release")
              /\ Ran(p, "tag_release") => result[p].kind \in {"none", "ok"}
              /\ Ran(p, "do_branching") =>
                    /\ pc[p] = "exit"
                    /\ result[p] = [kind |-> "ok", at |-> "do_branching"]
                    /\ \A s \in {"update_ref_stable", "update_ref_beta", "create_ref"} :
                          ~Ran(p, s)
        /\ "absent" \in {config[p].discourse, config[p].blog_repository} =>
              /\ \A op \in BlogCalls : ~Contacted(p, op)
              /\ ~FailedIn(p, "blog_and_discourse")
        /\ config[p].fastly = "absent" =>
              /\ ~Contacted(p, "fastly")
              /\ FailedIn(p, "invalidate_releases") =>
                    \E op \in {"write_payload", "cloudfront"} : InLog(p, Failed(op))
              /\ (Ran(p, "invalidate_releases") /\ ~InLog(p, "write_payload"))
                    => InLog(p, "invalidate_releases")

\* A stable release ended with success without a GitHub and without a
\* Fastly client, Fastly invalidation being enabled.
C25_Witness ==
    \E p \in Proc :
        /\ config[p].channel = "stable"
        /\ config[p].github = "absent"
        /\ config[p].fastly = "absent"
        /\ pc[p] = "exit"
        /\ result[p] = [kind |-> "ok", at |-> "tag_release"]

\* ---------------------------------------------------------------- C26
\* The calls that announce a release, and the place of a call in the log.
BlogSteps == {"create_file", "merge_pr", "create_topic"}
TagSteps == {"tag_rustc", "workflow_dispatch", "tag_cargo"}
At(p, op) == CHOOSE i \in DOMAIN log[p] : log[p][i] \in {op, Failed(op)}

\* C26: on nightly and beta no run creates a tag, dispatches the thanks
\* workflow, creates a blog file, merges a blog PR or posts a forum
\* topic; on stable these happen only after publish_release and the
\* cache invalidation succeeded, the tagging after the blogging, the
\* rustc tag before the workflow dispatch and the cargo tag last.
C26_AnnouncedOnStableInOrder ==
    \A p \in Proc :
        \A op \in BlogSteps \cup TagSteps :
            Contacted(p, op) =>
                /\ config[p].channel = "stable"
                /\ \A s \in {"publish_release", "invalidate_releases"} :
                      InLog(p, s) /\ At(p, s) < At(p, op)
                /\ op \in TagSteps =>
                      /\ InLog(p, "blog_and_discourse")
                      /\ At(p, "blog_and_discourse") < At(p, op)
                      /\ \A b \in BlogSteps :
                            Contacted(p, b) => At(p, b) < At(p, op)
                /\ op = "workflow_dispatch" =>
                      InLog(p, "tag_rustc") /\ At(p, "tag_rustc") < At(p, op)
                /\ op = "tag_cargo" =>
                      \A o \in (BlogSteps \cup TagSteps) \ {op} :
                          Contacted(p, o) => At(p, o) < At(p, op)

\* A stable run posted to the forum, created the blog file, tagged rustc,
\* dispatched the workflow and tagged cargo.
C26_Witness ==
    \E p \in Proc :
        /\ config[p].channel = "stable"
        /\ \A op \in {"create_topic", "create_file", "tag_rustc",
                      "workflow_dispatch", "tag_cargo"} : InLog(p, op)
        /\ result[p] = [kind |-> "ok", at |-> "tag_release"]

\* ---------------------------------------------------------------- C27
\* The versions do_branching compares are equal: stable and beta, or
\* beta and the commit before the last version bump.
AlreadyPromoted == heads.stable = heads.beta \/ heads.beta = PrebumpSha

\* C27: do_branching updates no ref when the version files of stable and
\* beta, or of beta and the pre-bump commit, are equal: it fails with an
\* error. After a promotion a second do_branching with no new version
\* bump changes neither heads/stable nor heads/beta and creates no cargo
\* branch.
C27_NoSecondPromotion ==
    [][ /\ \A p \in Proc :
              (/\ AlreadyPromoted
               /\ pc[p] = "do_branching" /\ pc'[p] # pc[p]
               /\ config'[p].github = "present")
                 => /\ pc'[p] = "exit"
                    /\ result'[p] = [kind |-> "error", at |-> "do_branching"]
                    /\ github' = github
        /\ heads.beta = PrebumpSha => heads' = heads
        /\ cargo_refs' # cargo_refs =>
              \E p \in Proc : pc[p] = "create_ref" /\ InLog(p, "update_ref_beta")
      ]_vars

\* After a whole promotion a second do_branching ended with an error.
C27_Witness ==
    /\ heads = [stable |-> BetaAtStart, beta |-> PrebumpSha]
    /\ cargo_refs = {PrebumpSha}
    /\ \E p \in Proc :
          /\ config[p].github = "present"
          /\ pc[p] = "exit"
          /\ result[p] = [kind |-> "error", at |-> "do_branching"]

\* ---------------------------------------------------------------- C29
\* C29: the gate checks run in a fixed order: the dated manifest is
\* queried only if the revision check did not skip, download_artifacts
\* is invoked only if neither earlier check skipped, the versions are
\* compared only after the download has completed, and the first check
\* that fires gives the reason of the skip.
C29_GateOrder ==
    \A p \in Proc :
        LET bypass == config[p].bypass_startup_checks
            fires == RevCheckSkips(bypass, previous_version[p], rev[p])
        IN /\ Ran(p, "check_rev") =>
                 (fires <=> pc[p] = "exit" /\ result[p].kind = "skip-rev")
           /\ Started(p, "dated_manifest_exists") =>
                 InLog(p, "check_rev") /\ ~fires /\ ~bypass
           /\ Started(p, "download_artifacts") =>
                 /\ InLog(p, "check_rev") /\ ~fires
                 /\ bypass \/ Before(p, "check_rev", "dated_manifest_exists")
                 /\ result[p].kind # "skip-dated"
           /\ Started(p, "current_version_same") =>
                 Before(p, "check_rev", "download_artifacts")
           /\ (pc[p] = "exit" /\ result[p].kind \in Skips) =>
                 result[p] \in {[kind |-> "skip-rev", at |-> "check_rev"],
                                [kind |-> "skip-dated", at |-> "dated_manifest_exists"],
                                [kind |-> "skip-version", at |-> "current_version_same"]}
           /\ result[p].kind = "skip-dated" => ~InLog(p, "download_artifacts")

\* A run that the revision check and the dated manifest let pass was
\* skipped by the comparison of the versions, after the download.
C29_Witness ==
    \E p \in Proc :
        /\ pc[p] = "exit"
        /\ result[p] = [kind |-> "skip-version", at |-> "current_version_same"]
        /\ Before(p, "dated_manifest_exists", "download_artifacts")

Fed(passes) == UNION {passes[i] : i \in DOMAIN passes}

\* C31: a recompress_file call runs at most one decompression pass over
\* its input, and when it produced both the gz and the re-encoded xz
\* output that one pass fed both compressors.
C31_SinglePass ==
    \A w \in Workers :
        LET passes == batch.tasks[w].passes
        IN /\ Len(passes) <= 1
           /\ Fed(passes) = {"gz", "xz"} => passes = << {"gz", "xz"} >>

\* C31 as amended: a recompress_file call that produced both the gz and
\* the re-encoded xz output decompressed its input twice, the first pass
\* feeding the gz compressor only and the second the xz compressor only;
\* no call runs more than two decompression passes.
C31_OnePassPerOutput ==
    \A w \in Workers :
        LET passes == batch.tasks[w].passes
        IN /\ Len(passes) <= 2
           /\ Fed(passes) = {"gz", "xz"} => passes = << {"gz"}, {"xz"} >>

C31_Witness ==
    \E w \in Workers :
        /\ batch.tasks[w].pc = "rename"
        /\ batch.tasks[w].passes = << {"gz"}, {"xz"} >>
        /\ with_extension(batch.tasks[w].file, "gz") \in Files(batch.disk)
        /\ with_extension(batch.tasks[w].file, "xz_recompressed")
               \in Files(batch.disk)

StartedAt(i) == batch.log[i][1] = "start"

\* C32: under every interleaving of the workers the files are taken
\* from the queue in non-increasing order of the length measured at sort
\* time: a file is never started before a larger one, started or waiting.
C32_LargestFirst ==
    \A i \in DOMAIN batch.log :
        StartedAt(i) =>
            /\ \A j \in DOMAIN batch.log :
                   j > i /\ StartedAt(j) =>
                       batch.len[batch.log[i][2]] >= batch.len[batch.log[j][2]]
            /\ \A k \in DOMAIN batch.to_recompress :
                   batch.len[batch.log[i][2]] >= batch.len[batch.to_recompress[k]]

C32_Witness ==
    \E i, j \in DOMAIN batch.log :
        /\ i < j
        /\ StartedAt(i)
        /\ StartedAt(j)
        /\ batch.len[batch.log[i][2]] > batch.len[batch.log[j][2]]
        /\ \E v, w \in Workers :
              /\ v # w
              /\ batch.tasks[v].file = batch.log[i][2]
              /\ batch.tasks[w].file = batch.log[j][2]

InProgress == {w \in Workers : batch.tasks[w].pc \in {"open", "gz", "xz", "rename"}}

Times(outcome, x) ==
    Cardinality({i \in DOMAIN batch.log : batch.log[i] = <<outcome, x>>})

Queued == DOMAIN batch.len

\* The part of C33 on mutual exclusion: each queued file is dequeued by
\* at most one worker and recompress_file runs at most once per file,
\* never in two workers at once, and at most num_threads files are in
\* progress at any time.
C33_EachFileOnce ==
    /\ \A x \in Queued :
          /\ Times("start", x) <= 1
          /\ Times("ok", x) + Times("err", x) <= Times("start", x)
          /\ Cardinality({w \in InProgress : batch.tasks[w].file = x}) <= 1
          /\ Times("start", x) = 0
                => \E k \in DOMAIN batch.to_recompress :
                      batch.to_recompress[k] = x
    /\ Cardinality(InProgress) <= batch.num_threads

\* C33: under every interleaving of the workers each queued file is
\* dequeued by exactly one worker, recompress_file runs at most once per
\* file, at most num_threads files are in progress at any time, and when
\* no file fails every queued file has been processed exactly once when
\* Context::recompress returns.
C33_EachFileOnceAndAllProcessed ==
    /\ C33_EachFileOnce
    /\ batch.pc = "returned" /\ batch.result = "ok"
          => \A x \in Queued : Times("ok", x) = 1

\* C34: whenever SmokeTester::test returns, with success or with an
\* error, the server was sent the shutdown signal and its thread joined,
\* so the listening port is free.
C34_ShutDownAndJoinedAtReturn ==
    smoke_test.pc = "returned" =>
        /\ smoke_test.shutdown_send = "sent"
        /\ smoke_test.joined
        /\ smoke_test.port = "free"

\* C35: if the server thread fails before it has published its address,
\* the loop of SmokeTester::new ends.
C35_FailedBootEndsTheWait ==
    (/\ smoke_test.pc = "wait"
     /\ smoke_test.thread = "panicked"
     /\ smoke_test.server_mtx = {})
        ~> (smoke_test.pc # "wait")

LastSegment(uri) ==
    LET slash == CHOOSE k \in DOMAIN uri :
                    uri[k] = "/" /\ \A l \in k + 1 .. Len(uri) : uri[l] # "/"
    IN SubSeq(uri, slash + 1, Len(uri))

Holds(i, name) ==
    name \in ServedNames /\ smoke_test.paths[i][name] = "file"

\* C36: an answer of the smoke test server is the content of the file
\* named by what follows the last '/' of the request, from the first of
\* its directories that holds such a file, and 404 exactly when none
\* does; a file of the smoke manifest directory is served in the place of
\* one of the same name in the download directory.
C36_FirstDirectoryServes ==
    smoke_test.response # << >> =>
        LET name == LastSegment(smoke_test.request)
            answer == smoke_test.response[1]
        IN /\ answer.status = "404 Not Found"
                <=> \A i \in DOMAIN smoke_test.paths : ~Holds(i, name)
           /\ \A i \in DOMAIN smoke_test.paths :
                 Holds(i, name) /\ (\A j \in 1 .. i - 1 : ~Holds(j, name))
                    => /\ answer.status = "200 OK"
                       /\ answer.body = Content(i, name)
           /\ Holds(1, name) => answer.body = Content(1, name)

C36_Witness ==
    /\ smoke_test.request = <<"/", "a", "/", "b">>
    /\ Holds(1, <<"b">>)
    /\ Holds(2, <<"b">>)
    /\ smoke_test.paths[1][<<"a">>] = "absent"
    /\ smoke_test.response = <<[status |-> "200 OK", body |-> Content(1, <<"b">>)]>>

LiveManifestStale(p) ==
    LET live == <<TopLevel, ManifestName(config[p].channel)>>
    IN bucket[live] = InitialBucket[live]

\* C37: a run without the bypass flag that finds the dated manifest of its
\* day ends there, with the skip or with the error of the request, and
\* writes nothing, whether or not the channel's live manifest was ever
\* brought up to the dated one; so no run without the flag reaches a
\* publication step on a day whose dated manifest was there at its gate.
C37_DatedManifestEndsTheRun ==
    /\ [][\A p \in Proc :
            ( /\ pc[p] = "dated_manifest_exists"
              /\ DatedManifestKey(p) \in DOMAIN bucket
              /\ pc'[p] # pc[p] )
            => /\ pc'[p] = "exit"
               /\ result'[p] \in
                     {[kind |-> "skip-dated", at |-> "dated_manifest_exists"],
                      [kind |-> "error", at |-> "dated_manifest_exists"]}
               /\ bucket' = bucket
               /\ docs' = docs]_vars
    /\ [](\A p \in Proc :
            /\ (\E step \in PublishSteps : Started(p, step))
                  /\ ~config[p].bypass_startup_checks
                  => InLog(p, "dated_manifest_exists")
            /\ result[p].kind = "skip-dated"
                  => \A step \in PublishSteps : ~Started(p, step))

\* An earlier run of the day uploaded the dated archive and failed before
\* the live manifest was replaced; a later run of the same day skipped.
C37_Witness ==
    \E p \in Proc :
        /\ result[p] = [kind |-> "skip-dated", at |-> "dated_manifest_exists"]
        /\ ~config[p].bypass_startup_checks
        /\ DatedManifestKey(p) \in DOMAIN bucket
        /\ date[p] = today
        /\ LiveManifestStale(p)
        /\ bucket[DatedManifestKey(p)] # InitialBucket[<<TopLevel, DatedManifestKey(p)[2]>>]

ArchiveComplete(p) ==
    \A n \in Files(dl) :
        /\ <<date[p], n>> \in DOMAIN bucket
        /\ bucket[<<date[p], n>>] = dl[n]

TopLevelOf(b) == {k \in DOMAIN b : k[1] = TopLevel}

\* C38: within a run the upload of the dated archive completes before
\* the upload of the documentation starts, which completes before any
\* object of the top-level directory is written; a step that changes the
\* top-level directory is taken by a run whose whole dl is already in the
\* directory of its date.
C38_ArchiveThenDocsThenRelease ==
    /\ [](\A p \in Proc :
            /\ Started(p, "publish_docs") => InLog(p, "publish_archive")
            /\ Started(p, "publish_release")
                  => /\ Before(p, "publish_archive", "publish_docs")
                     /\ ArchiveComplete(p))
    /\ [][(\E k \in TopLevelOf(bucket') :
              k \notin DOMAIN bucket \/ bucket'[k] # bucket[k])
            => \E p \in Proc :
                  /\ pc[p] = "publish_release"
                  /\ Before(p, "publish_archive", "publish_docs")
                  /\ ArchiveComplete(p)]_vars

\* A run replaced the live manifest of its channel.
C38_Witness ==
    \E p \in Proc :
        LET live == <<TopLevel, ManifestName(config[p].channel)>> IN
           /\ InLog(p, "publish_release")
           /\ bucket[live] # InitialBucket[live]
           /\ bucket[live] = bucket[DatedManifestKey(p)]
           /\ ArchiveComplete(p)

ReadingSteps ==
    {"build_manifest_new", "publish_docs", "blog_and_discourse", "tag_release"}

\* C39: no run reads an unset current version.  On stable every step
\* that reads current_version or current_cargo_version starts after
\* current_version_same has stored both, with or without the bypass
\* flag, and no such step panics; on nightly the two are never set.
C39_VersionsSetBeforeRead ==
    \A p \in Proc :
        /\ result[p].kind = "panic" => result[p].at \notin ReadingSteps
        /\ config[p].channel = "stable" /\ (\E step \in ReadingSteps : Started(p, step))
              => /\ InLog(p, "current_version_same")
                 /\ current_version[p] # {}
                 /\ current_cargo_version[p] # {}
        /\ config[p].channel = "nightly"
              => current_version[p] = {} /\ current_cargo_version[p] = {}

\* A stable run with the bypass flag set tagged cargo.
C39_Witness ==
    \E p \in Proc :
        /\ config[p].channel = "stable"
        /\ config[p].bypass_startup_checks
        /\ InLog(p, "tag_cargo")
        /\ InLog(p, "publish_docs")
        /\ current_version[p] # {}
        /\ current_cargo_version[p] # {}

HalfPromoted ==
    /\ heads.stable = heads.beta
    /\ \A p \in Proc : pc[p] # "update_ref_beta"

\* C40: do_branching moves heads/stable to the beta tip it read before
\* any update and then, in a later step, heads/beta to the parent of the
\* last version bump.  When it has failed between the two, stable and
\* beta are the same commit, and from then on no run moves a branch: a
\* do_branching that reaches its checks fails on the first of them.
C40_StableThenBetaNotAtomic ==
    /\ [](\A p \in Proc :
            Started(p, "update_ref_beta")
               => /\ InLog(p, "update_ref_stable")
                  /\ heads.stable = branch[p].beta_sha
                  /\ branch[p].beta_sha = BetaAtStart)
    /\ [][ /\ heads'.stable # heads.stable
              => heads'.stable = heads.beta /\ heads'.beta = heads.beta
           /\ heads'.beta # heads.beta
              => /\ heads'.beta = PrebumpSha
                 /\ heads'.stable = heads.stable
                 /\ heads.stable = heads.beta
           /\ HalfPromoted
              => /\ heads' = heads
                 /\ cargo_refs' = cargo_refs
                 /\ \A p \in Proc :
                       (/\ pc[p] = "do_branching" /\ pc'[p] # pc[p]
                        /\ config'[p].github = "present")
                          => /\ pc'[p] = "exit"
                             /\ result'[p] = [kind |-> "error", at |-> "do_branching"]
         ]_vars

\* A do_branching failed on its first check after an earlier one had
\* moved heads/stable only.
C40_Witness ==
    /\ heads = [stable |-> BetaAtStart, beta |-> BetaAtStart]
    /\ cargo_refs = {}
    /\ \E p \in Proc :
          /\ config[p].github = "present"
          /\ pc[p] = "exit"
          /\ result[p] = [kind |-> "error", at |-> "do_branching"]

====
